---- MODULE Spec2Model ----
(***************************************************************************)
(* Conversation-context manager of the Personal-Coach backend              *)
(* (backend/utils.py, LLMStreamingClient) and the chat stream generators   *)
(* of backend/app.py (ChatAPI).                                            *)
(*                                                                         *)
(* Two specifications share the variables:                                 *)
(*   Spec        direct calls of the context-manager methods               *)
(*   StreamSpec  the generators _generate_stream,                          *)
(*               _generate_stream_multimodal and                           *)
(*               _generate_initial_call_response_with_save, one step per   *)
(*               resumption of the generator, plus the detached            *)
(*               memory-extraction thread                                  *)
(***************************************************************************)
EXTENDS Integers, Sequences, FiniteSets, TLC

(***************************************************************************)
(* Program constants                                                       *)
(***************************************************************************)
\* config.py:22
history_truncate_threshold == 30
\* config.py:23
summary_cache_timeout == 300
\* utils.py:288, the literal in full_history[:-30]
SummaryKeepLiteral == 30
\* utils.py:220, .limit(10)
GoalContextCap == 10
\* utils.py:247, memories[-15:]
MemoryContextCap == 15
\* utils.py:774-779, stream_chat_response accepts at most four positional arguments
StreamChatResponseMaxArgs == 4

(***************************************************************************)
(* Bounds of the model                                                     *)
(***************************************************************************)
\* histories of 0..MaxShort turns are enumerated next to the long ones
MaxShort == 1
\* the longest history has history_truncate_threshold + MaxOverflow turns
MaxOverflow == 5
\* role offsets 0..MaxPattern of the histories given to the direct calls
MaxPattern == 1
\* number of clock advances
MaxTicks == 1
\* number of summarization calls that return a text
MaxSummaries == 2
\* number of memories stored per user
MaxMemories == 1
\* number of chunk frames of one LLM stream
MaxChunks == 1
\* number of chat requests served
MaxRequests == 2
\* number of detached extraction threads alive at a time
MaxBackground == 1

Users == {1, 2}
\* Python None where a summary text is expected
None == [id |-> 0, user |-> 0, covers |-> 0]
\* conversation_summary.json does not exist
NoFile == [exists |-> FALSE]
\* role strings a HistoryItem may carry (app.py:21-23, role: str)
RoleList == <<"user", "assistant", "system", "model", "tool">>

Max(a, b) == IF a > b THEN a ELSE b
Min(a, b) == IF a < b THEN a ELSE b

(***************************************************************************)
(* Histories: turn i of user u's conversation has content <<u, i>>; the    *)
(* roles rotate through RoleList starting at offset p.                     *)
(***************************************************************************)
MkHistory(u, n, p) ==
    [i \in 1..n |-> [role |-> RoleList[((i + p) % Len(RoleList)) + 1],
                     content |-> <<u, i>>]]

HistoryLens ==
    (0..MaxShort) \cup
    {history_truncate_threshold, history_truncate_threshold + 1,
     history_truncate_threshold + MaxOverflow}

\* histories given to the direct calls
Histories == {MkHistory(1, n, p) : n \in HistoryLens, p \in 0..MaxPattern}

\* lengths of the histories sent with requests
StreamLens == {0, history_truncate_threshold + MaxOverflow}

Texts == {"", "hello"}

\* numbers of attachments of a multimodal request
FileCounts == {0, 1, 2}

(***************************************************************************)
(* Python slices seq[:-k] and seq[-k:] for k > 0                           *)
(***************************************************************************)
\* seq[:-k] taken one element too long
SliceDropLastOffByOne(s, k) == SubSeq(s, 1, Max(0, Len(s) - k + 1))

SliceDropLast(s, k) == SubSeq(s, 1, Max(0, Len(s) - k))

SliceLast(s, k) == SubSeq(s, Max(1, Len(s) - k + 1), Len(s))

(***************************************************************************)
(* _normalize_role                                                         *)
(***************************************************************************)
\* the mapping without the fold of "system" into "user"
normalize_role_system_kept(role) ==
    CASE role = "assistant" -> "model"
      [] role = "system"    -> "system"
      [] role = "user"      -> "user"
      [] role = "model"     -> "model"
      [] OTHER              -> "user"

_normalize_role(role) ==
    CASE role = "assistant" -> "model"
      [] role = "system"    -> "user"
      [] role = "user"      -> "user"
      [] role = "model"     -> "model"
      [] OTHER              -> "user"

VARIABLES
    summaryFile,      \* conversation_summary.json: NoFile or [summary |-> s]
    summaryCache,     \* LLMStreamingClient._summary_cache
    summaryCacheTime, \* LLMStreamingClient._summary_cache_time
    now,              \* time.time()
    ticks,            \* clock advances so far
    nextSummaryId,    \* texts returned by the summarization LLM call so far
    last,             \* outcome of the last direct call (Spec)
    goals,            \* goals table: per user, the rows in order of created_at
    profiles,         \* users that have a user_profiles row
    memories,         \* UserProfile.memories: per user, the JSON list
    messages,         \* messages table: the rows; id, content and created_at are
                      \* carried where save_message is followed (MessageSpec)
    chats,            \* chats table: per chat id, the owner and updated_at
    fields,           \* user_profiles: per user, first_name, last_name, birth_date
    pending,          \* per user, the UserProfile objects added to the request's
                      \* Session and not flushed yet (autoflush=False)
    rpc,              \* position of the active stream generator
    req,              \* its arguments
    frames,           \* frames it has yielded
    resp,             \* its local full_response: whether it holds a non-blank
    sent,             \* what stream_response handed to the LLM
    trace,            \* what happened while the generator ran
    bgTasks,          \* started _extract_memories_background threads
    requests,         \* generators created so far
    local             \* what the callers and threads that a specification
                      \* follows step by step hold between their steps

summaryVars == <<summaryFile, summaryCache, summaryCacheTime, nextSummaryId>>
clockVars == <<now, ticks>>
dbVars == <<goals, chats, profiles, memories, messages, fields, pending>>
streamVars == <<rpc, req, frames, resp, sent, trace, bgTasks, requests>>
vars == <<summaryVars, clockVars, last, dbVars, streamVars, local>>

\* Python truthiness of an Optional[str] summary
Truthy(s) == s # None

(***************************************************************************)
(* _load_conversation_summary: the value returned and the cache after it   *)
(***************************************************************************)
\* the cache answered up to and including the TTL
LoadSummaryInclusiveTTL(c, ct, f, t) ==
    IF Truthy(c) /\ t - ct <= summary_cache_timeout
    THEN [ret |-> c, cache |-> c, ctime |-> ct]
    ELSE IF f = NoFile
    THEN [ret |-> None, cache |-> c, ctime |-> ct]
    ELSE [ret |-> f.summary, cache |-> f.summary, ctime |-> t]

\* a cache miss answered with nothing instead of the stored record
LoadSummaryNoRead(c, ct, f, t) ==
    IF Truthy(c) /\ t - ct < summary_cache_timeout
    THEN [ret |-> c, cache |-> c, ctime |-> ct]
    ELSE [ret |-> None, cache |-> c, ctime |-> ct]

LoadSummary(c, ct, f, t) ==
    IF Truthy(c) /\ t - ct < summary_cache_timeout
    THEN [ret |-> c, cache |-> c, ctime |-> ct]
    ELSE IF f = NoFile
    THEN [ret |-> None, cache |-> c, ctime |-> ct]
    ELSE [ret |-> f.summary, cache |-> f.summary, ctime |-> t]

(***************************************************************************)
(* _save_conversation_summary                                              *)
(***************************************************************************)
\* the record written and the cache left as it was
SaveSummaryFileOnly(s, t) ==
    [file |-> [summary |-> s], cache |-> summaryCache, ctime |-> summaryCacheTime]

\* a record already stored kept in place of the new one
SaveSummaryKeepFirst(s, t) ==
    [file |-> IF summaryFile = NoFile THEN [summary |-> s] ELSE summaryFile,
     cache |-> s, ctime |-> t]

SaveSummary(s, t) ==
    [file |-> [summary |-> s], cache |-> s, ctime |-> t]

(***************************************************************************)
(* _create_summary: the text the LLM returns for a transcript.  The text   *)
(* is identified by the call that produced it and by what it summarizes.   *)
(* out is the outcome of generate_content: "ok", "empty" (response.text is *)
(* None) or "raise".                                                       *)
(***************************************************************************)
LLMOutcomes == {"ok", "empty", "raise"}

SummaryText(id, input) ==
    [id |-> id,
     user |-> IF input = <<>> THEN 0 ELSE input[1].content[1],
     covers |-> Len(input)]

\* a failed call swallowed and turned into an empty text
CreateSummarySwallow(input, out, id) ==
    IF out = "ok" THEN [raised |-> FALSE, text |-> SummaryText(id, input)]
    ELSE [raised |-> FALSE, text |-> None]

CreateSummary(input, out, id) ==
    IF out = "raise" THEN [raised |-> TRUE, text |-> None]
    ELSE IF out = "empty" THEN [raised |-> FALSE, text |-> None]
    ELSE [raised |-> FALSE, text |-> SummaryText(id, input)]

(***************************************************************************)
(* _build_conversation_context on history h, starting from cache c (set at *)
(* ct) and file f at time t; out and id are the outcome of the             *)
(* summarization call, should one be made.  calls lists the inputs of the  *)
(* summarization calls made.                                               *)
(***************************************************************************)
BuildConversationContext(h, c, ct, f, t, out, id) ==
    IF h = <<>>
    THEN [raised |-> FALSE, hist |-> <<>>, summary |-> None, calls |-> <<>>,
          cache |-> c, ctime |-> ct, file |-> f]
    ELSE
      LET ld == LoadSummary(c, ct, f, t) IN
      IF Len(h) > history_truncate_threshold
      THEN
        LET input == SliceDropLast(h, SummaryKeepLiteral)
            cs    == CreateSummary(input, out, id)
            sv    == SaveSummary(cs.text, t)
        IN IF cs.raised
           THEN [raised |-> TRUE, hist |-> <<>>, summary |-> None, calls |-> <<input>>,
                 cache |-> ld.cache, ctime |-> ld.ctime, file |-> f]
           ELSE [raised |-> FALSE,
                 hist |-> SliceLast(h, history_truncate_threshold),
                 summary |-> cs.text, calls |-> <<input>>,
                 cache |-> sv.cache, ctime |-> sv.ctime, file |-> sv.file]
      ELSE [raised |-> FALSE, hist |-> h, summary |-> ld.ret, calls |-> <<>>,
            cache |-> ld.cache, ctime |-> ld.ctime, file |-> f]

(***************************************************************************)
(* _build_contents: the message list for text and history h                *)
(***************************************************************************)
ContentEntry(item) ==
    [role |-> _normalize_role(item.role), parts |-> <<[text |-> item.content]>>]

UserEntry(text) == [role |-> "user", parts |-> <<[text |-> text]>>]

BuildContents(text, h, c, ct, f, t, out, id) ==
    LET cx == BuildConversationContext(h, c, ct, f, t, out, id) IN
    [raised |-> cx.raised,
     contents |-> IF cx.raised THEN <<>>
                  ELSE [i \in 1..Len(cx.hist) |-> ContentEntry(cx.hist[i])] \o <<UserEntry(text)>>,
     hist |-> cx.hist, calls |-> cx.calls,
     cache |-> cx.cache, ctime |-> cx.ctime, file |-> cx.file]

\* a summarization call that returns a text uses up one text identity
UsesSummaryId(calls, out) == calls # <<>> /\ out = "ok"

OutcomeAllowed(h, out) ==
    /\ (Len(h) > history_truncate_threshold /\ out = "ok") => nextSummaryId < MaxSummaries
    /\ (Len(h) <= history_truncate_threshold) => out = "ok"

PreState == [cache |-> summaryCache, ctime |-> summaryCacheTime,
             file |-> summaryFile, now |-> now]

NoCall == [op |-> "none", h |-> <<>>, text |-> "", raised |-> FALSE, hist |-> <<>>,
           summary |-> None, calls |-> <<>>, llm |-> "none", contents |-> <<>>,
           pre |-> [cache |-> None, ctime |-> 0, file |-> NoFile, now |-> 0]]

(***************************************************************************)
(* Persistence: the goals table is not written by the operations below.    *)
(***************************************************************************)
InitialGoals ==
    [u \in Users |->
        IF u = 1
        THEN <<[description |-> "run", status |-> "Active"],
               [description |-> "read", status |-> "Completed"],
               [description |-> "sleep", status |-> "Active"]>>
        ELSE <<>>]

\* Python None in a column of user_profiles
Unset == <<"<None>">>

NoFields == [first_name |-> Unset, last_name |-> Unset, birth_date |-> Unset]

\* nothing is being followed
NoLocal == [op |-> "none"]

\* no chat has been created
NoChats == <<>>

NoRequest == [kind |-> "none", user |-> 0, hist |-> <<>>, text |-> "", files |-> 0]
NoResp == [nonBlank |-> FALSE]
NotSent == [called |-> FALSE, sys |-> <<>>, contents |-> <<>>]
NoTrace == [streamEnded |-> FALSE, extractRaised |-> FALSE, saveRaised |-> FALSE,
            newSummary |-> None]

\* conversation_summary.json outlives the process: a summary written by an
\* earlier run may be on disk when the client is constructed
PriorSummary == [id |-> 0, user |-> 2, covers |-> 1]

Init ==
    /\ summaryFile \in {NoFile, [summary |-> PriorSummary]}
    /\ summaryCache = None
    /\ summaryCacheTime = 0
    /\ now = 0
    /\ ticks = 0
    /\ nextSummaryId = 0
    /\ last = NoCall
    /\ goals = InitialGoals
    /\ profiles = {}
    /\ memories = [u \in Users |-> <<>>]
    /\ messages = {}
    /\ fields = [u \in Users |-> NoFields]
    /\ pending = [u \in Users |-> 0]
    /\ rpc = "idle"
    /\ req = NoRequest
    /\ frames = <<>>
    /\ resp = NoResp
    /\ sent = NotSent
    /\ trace = NoTrace
    /\ bgTasks = {}
    /\ requests = 0
    /\ local = NoLocal
    /\ chats = NoChats

(***************************************************************************)
(* time.time() is observed in steps of one TTL; a call, and a run of a      *)
(* stream generator from its creation to its last frame, falls within one  *)
(* step.                                                                   *)
(***************************************************************************)
TickStep == summary_cache_timeout

Tick ==
    /\ ticks < MaxTicks
    /\ rpc = "idle"
    /\ now' = now + TickStep
    /\ ticks' = ticks + 1
    /\ UNCHANGED <<summaryVars, last, dbVars, streamVars, local>>

(***************************************************************************)
(* Direct calls                                                            *)
(***************************************************************************)
CallLoadSummary ==
    LET ld == LoadSummary(summaryCache, summaryCacheTime, summaryFile, now) IN
    /\ summaryCache' = ld.cache
    /\ summaryCacheTime' = ld.ctime
    /\ last' = [NoCall EXCEPT !.op = "load", !.summary = ld.ret, !.pre = PreState]
    /\ UNCHANGED <<summaryFile, nextSummaryId, clockVars, dbVars, streamVars, local>>

CallBuildConversationContext ==
    \E h \in Histories, out \in LLMOutcomes :
      LET cx == BuildConversationContext(h, summaryCache, summaryCacheTime, summaryFile,
                                         now, out, nextSummaryId + 1) IN
      /\ OutcomeAllowed(h, out)
      /\ summaryCache' = cx.cache
      /\ summaryCacheTime' = cx.ctime
      /\ summaryFile' = cx.file
      /\ nextSummaryId' = IF UsesSummaryId(cx.calls, out) THEN nextSummaryId + 1 ELSE nextSummaryId
      /\ last' = [NoCall EXCEPT !.op = "context", !.h = h, !.raised = cx.raised,
                                !.hist = cx.hist, !.summary = cx.summary,
                                !.calls = cx.calls,
                                !.llm = IF cx.calls = <<>> THEN "none" ELSE out,
                                !.pre = PreState]
      /\ UNCHANGED <<clockVars, dbVars, streamVars, local>>

CallBuildContents ==
    \E text \in Texts, h \in Histories, out \in LLMOutcomes :
      LET bc == BuildContents(text, h, summaryCache, summaryCacheTime, summaryFile,
                              now, out, nextSummaryId + 1) IN
      /\ OutcomeAllowed(h, out)
      /\ summaryCache' = bc.cache
      /\ summaryCacheTime' = bc.ctime
      /\ summaryFile' = bc.file
      /\ nextSummaryId' = IF UsesSummaryId(bc.calls, out) THEN nextSummaryId + 1 ELSE nextSummaryId
      /\ last' = [NoCall EXCEPT !.op = "contents", !.h = h, !.text = text,
                                !.raised = bc.raised, !.hist = bc.hist,
                                !.calls = bc.calls, !.contents = bc.contents,
                                !.llm = IF bc.calls = <<>> THEN "none" ELSE out,
                                !.pre = PreState]
      /\ UNCHANGED <<clockVars, dbVars, streamVars, local>>

Next ==
    \/ Tick
    \/ CallLoadSummary
    \/ CallBuildConversationContext
    \/ CallBuildContents

Spec == Init /\ [][Next]_vars

(***************************************************************************)
(* Replies of the memory-extraction call.  A reply is a sequence of        *)
(* lexical pieces: brackets, commas, blanks, quoted string literals and    *)
(* the bare word none (some letter case of NONE).  A string is the         *)
(* sequence of its pieces, " " being a blank.                              *)
(***************************************************************************)
Literals == {"'likes tea'", "' has a dog '", "'  '"}

ReplyTokens == {"[", "]", ",", " ", "none"} \cup Literals

\* the string a quoted literal denotes
LitValue(tok) ==
    CASE tok = "'likes tea'"    -> <<"likes tea">>
      [] tok = "' has a dog '"  -> <<" ", "has a dog", " ">>
      [] OTHER                  -> <<" ", " ">>

\* str(item) of an item that is itself a list: a text from "[" to "]"
ReprOfList == <<"[...]">>

\* longest reply enumerated exhaustively
MaxReplyLen == 5

RECURSIVE SeqsUpTo(_, _)
SeqsUpTo(S, n) ==
    IF n = 0 THEN {<<>>}
    ELSE LET shorter == SeqsUpTo(S, n - 1)
         IN shorter \cup {Append(q, x) : q \in {r \in shorter : Len(r) = n - 1}, x \in S}

\* longer replies: lists with blank entries, prose around the list, two lists
SampleReplies ==
    { <<"[", "'likes tea'", ",", "'  '", ",", "' has a dog '", "]">>,
      <<" ", "none", " ", "[", "' has a dog '", ",", "]", "none", " ">>,
      <<"[", "'likes tea'", "]", "none", "[", "' has a dog '", "]">>,
      <<"[", "[", "'likes tea'", "]", ",", "' has a dog '", "'likes tea'", "]">>,
      <<" ", " ", "none", " ">> }

Replies == SeqsUpTo(ReplyTokens, MaxReplyLen) \cup SampleReplies

(***************************************************************************)
(* str.strip(), str.find() and str.rfind(); 0 stands for -1                *)
(***************************************************************************)
RECURSIVE LStrip(_)
LStrip(s) == IF s # <<>> /\ s[1] = " " THEN LStrip(Tail(s)) ELSE s

RECURSIVE RStrip(_)
RStrip(s) == IF s # <<>> /\ s[Len(s)] = " " THEN RStrip(SubSeq(s, 1, Len(s) - 1)) ELSE s

Strip(s) == RStrip(LStrip(s))

Find(s, t) ==
    IF \E i \in 1..Len(s) : s[i] = t
    THEN CHOOSE i \in 1..Len(s) : s[i] = t /\ \A j \in 1..(i - 1) : s[j] # t
    ELSE 0

\* the search for the last occurrence replaced by the search for the first
RFindFirst(s, t) == Find(s, t)

RFind(s, t) ==
    IF \E i \in 1..Len(s) : s[i] = t
    THEN CHOOSE i \in 1..Len(s) : s[i] = t /\ \A j \in (i + 1)..Len(s) : s[j] # t
    ELSE 0

(***************************************************************************)
(* ast.literal_eval on the text from the first "[" to the last "]".        *)
(* Blanks between lexical pieces do not count.  ParseItems reads the items *)
(* of a list from position i on; st tells what was read last: "start"      *)
(* (the opening bracket), "str" (a string literal), "list" (a nested list) *)
(* or "comma".  Adjacent string literals are one string; a bare word, a    *)
(* subscript or a missing bracket makes literal_eval raise.                *)
(***************************************************************************)
NotBlank(t) == t # " "

ParseFailed == [ok |-> FALSE, val |-> <<>>, next |-> 0]

RECURSIVE ParseItems(_, _, _, _)
ParseItems(toks, i, acc, st) ==
    IF i > Len(toks) THEN ParseFailed
    ELSE LET t == toks[i] IN
      CASE t = "]" -> [ok |-> TRUE, val |-> acc, next |-> i + 1]
        [] t = "," -> IF st \in {"str", "list"}
                      THEN ParseItems(toks, i + 1, acc, "comma")
                      ELSE ParseFailed
        [] t \in Literals ->
             IF st \in {"start", "comma"}
             THEN ParseItems(toks, i + 1, Append(acc, LitValue(t)), "str")
             ELSE IF st = "str"
             THEN ParseItems(toks, i + 1,
                             [acc EXCEPT ![Len(acc)] = acc[Len(acc)] \o LitValue(t)], "str")
             ELSE ParseFailed
        [] t = "[" ->
             IF st \in {"start", "comma"}
             THEN LET inner == ParseItems(toks, i + 1, <<>>, "start")
                  IN IF inner.ok
                     THEN ParseItems(toks, inner.next, Append(acc, ReprOfList), "list")
                     ELSE ParseFailed
             ELSE ParseFailed
        [] OTHER -> ParseFailed

\* val holds str(item) for every item of the parsed list
LiteralEval(text) ==
    LET toks == SelectSeq(text, NotBlank) IN
    IF toks = <<>> \/ toks[1] # "[" THEN ParseFailed
    ELSE LET r == ParseItems(toks, 2, <<>>, "start")
         IN IF r.ok /\ r.next = Len(toks) + 1 THEN r ELSE ParseFailed

(***************************************************************************)
(* _extract_list_from_response                                             *)
(***************************************************************************)
NonBlankStripped(items) ==
    LET stripped == [i \in 1..Len(items) |-> Strip(items[i])]
        NonEmpty(x) == x # <<>>
    IN SelectSeq(stripped, NonEmpty)

_extract_list_from_response(content) ==
    LET first_bracket == Find(content, "[")
        last_bracket  == RFind(content, "]")
    IN IF first_bracket = 0 \/ last_bracket = 0 THEN <<>>
       ELSE LET ev == LiteralEval(SubSeq(content, first_bracket, last_bracket))
            IN IF ev.ok THEN NonBlankStripped(ev.val) ELSE <<>>

(***************************************************************************)
(* _extract_memories, lines 175-181: from the reply text to the list       *)
(***************************************************************************)
MemoriesOfReply(text) ==
    LET content == Strip(text) IN
    IF content = <<"none">> \/ content = <<>> THEN <<>>
    ELSE _extract_list_from_response(content)

\* the reply arrives with the response of generate_content
ParseInit ==
    /\ last \in {[op |-> "reply", reply |-> r] : r \in Replies}
    /\ summaryFile = NoFile
    /\ summaryCache = None
    /\ summaryCacheTime = 0
    /\ now = 0
    /\ ticks = 0
    /\ nextSummaryId = 0
    /\ goals = InitialGoals
    /\ profiles = {}
    /\ memories = [u \in Users |-> <<>>]
    /\ messages = {}
    /\ fields = [u \in Users |-> NoFields]
    /\ pending = [u \in Users |-> 0]
    /\ rpc = "idle"
    /\ req = NoRequest
    /\ frames = <<>>
    /\ resp = NoResp
    /\ sent = NotSent
    /\ trace = NoTrace
    /\ bgTasks = {}
    /\ requests = 0
    /\ local = NoLocal
    /\ chats = NoChats

CallExtractMemoriesReply ==
    /\ last.op = "reply"
    /\ last' = [op |-> "parse", reply |-> last.reply, result |-> MemoriesOfReply(last.reply)]
    /\ UNCHANGED <<summaryVars, clockVars, dbVars, streamVars, local>>

ParseNext == CallExtractMemoriesReply

ParseSpec == ParseInit /\ [][ParseNext]_vars

(***************************************************************************)
(* The user's row of user_profiles as one request's Session sees it: row   *)
(* tells whether the row is in the table, pending counts the UserProfile   *)
(* objects the Session holds for an INSERT.  The Session does not flush    *)
(* before a query (models.py:138), so a query does not see them.           *)
(***************************************************************************)
\* utils.py:544, len(memories_list) >= 5
MinIntakeMemories == 5
\* utils.py:500
AllowedKeys == {"first_name", "last_name", "birth_date"}
\* utils.py:430
ClosingMessage == <<"It was wonderful getting to know you! ...">>

\* unflushed UserProfile objects of one user in one Session
MaxPending == 2
\* memories stored beyond MinIntakeMemories
MaxExtraMemories == 1

ProfileState(u) ==
    [row |-> u \in profiles, fields |-> fields[u], mems |-> memories[u],
     pending |-> pending[u]]

\* INSERT of the pending objects and of extra new ones: user_id is unique
FlushFails(st, extra) == (IF st.row THEN 1 ELSE 0) + st.pending + extra > 1

\* datetime.strptime(value, '%Y-%m-%d') returns a date
IsDate(value) == value = <<"1990-01-05">>

\* the handler with the date taken as it comes
HandleUpdateUnparsedDate(args, st, dbOut) ==
    IF "key" \notin DOMAIN args \/ "value" \notin DOMAIN args \/ args.key \notin AllowedKeys
    THEN [raised |-> FALSE, st |-> st]
    ELSE [raised |-> FALSE,
          st |-> [row |-> TRUE, fields |-> [st.fields EXCEPT ![args.key] = args.value],
                  mems |-> st.mems, pending |-> 0]]

(***************************************************************************)
(* _handle_update_user_profile(args, user_id, db): whether it raised and   *)
(* the row afterwards; dbOut is the outcome of the commit, should one be   *)
(* made.                                                                   *)
(***************************************************************************)
HandleUpdateUserProfile(args, st, dbOut) ==
    IF "key" \notin DOMAIN args \/ "value" \notin DOMAIN args
    THEN [raised |-> FALSE, st |-> st]
    ELSE IF args.key = "memories"
    THEN LET memory_list == _extract_list_from_response(args.value)
             extra == IF st.row THEN 0 ELSE 1
         IN IF memory_list = <<>> THEN [raised |-> FALSE, st |-> st]
            ELSE IF FlushFails(st, extra) \/ dbOut = "fail"
            THEN [raised |-> FALSE, st |-> [st EXCEPT !.pending = 0]]
            ELSE [raised |-> FALSE,
                  st |-> [row |-> TRUE, fields |-> st.fields,
                          mems |-> st.mems \o [i \in 1..Len(memory_list) |->
                                                  [content |-> memory_list[i]]],
                          pending |-> 0]]
    ELSE IF args.key \notin AllowedKeys
    THEN [raised |-> FALSE, st |-> st]
    ELSE LET extra == IF st.row THEN 0 ELSE 1 IN
         IF args.key = "birth_date" /\ ~IsDate(args.value)
         THEN [raised |-> FALSE, st |-> [st EXCEPT !.pending = st.pending + extra]]
         ELSE IF FlushFails(st, extra) \/ dbOut = "fail"
         THEN [raised |-> TRUE, st |-> [st EXCEPT !.pending = 0]]
         ELSE [raised |-> FALSE,
               st |-> [row |-> TRUE, fields |-> [st.fields EXCEPT ![args.key] = args.value],
                       mems |-> st.mems, pending |-> 0]]

(***************************************************************************)
(* _is_profile_complete                                                    *)
(***************************************************************************)
FieldFilled(v) == v # Unset /\ Strip(v) # <<>>

IsProfileComplete(st) ==
    /\ st.row
    /\ FieldFilled(st.fields.first_name)
    /\ FieldFilled(st.fields.last_name)
    /\ FieldFilled(st.fields.birth_date)
    /\ Len(st.mems) >= MinIntakeMemories

(***************************************************************************)
(* initial_call_response, lines 405-457: the parts of the model response   *)
(* are handled in order.  A part is a function call or a text.             *)
(***************************************************************************)
ToolCall(args) == [kind |-> "call", name |-> "update_user_profile", args |-> args]

OtherCall == [kind |-> "call", name |-> "other_tool", args |-> [key |-> "x", value |-> <<>>]]

TextPart == [kind |-> "text", text |-> <<"Tell me more">>]

\* the text of the second generate_content call
FinalText == <<"Thanks, noted">>

RECURSIVE JoinTexts(_)
JoinTexts(texts) ==
    IF Len(texts) = 0 THEN <<>>
    ELSE IF Len(texts) = 1 THEN texts[1]
    ELSE texts[1] \o <<" ">> \o JoinTexts(Tail(texts))

RECURSIVE ProcessParts(_, _, _, _, _)
ProcessParts(parts, st, found, texts, dbOut) ==
    IF parts = <<>> THEN [raised |-> FALSE, st |-> st, found |-> found, texts |-> texts]
    ELSE LET part == Head(parts) IN
      IF part.kind = "call"
      THEN IF part.name = "update_user_profile"
           THEN LET h == HandleUpdateUserProfile(part.args, st, dbOut)
                IN IF h.raised
                   THEN [raised |-> TRUE, st |-> h.st, found |-> TRUE, texts |-> texts]
                   ELSE ProcessParts(Tail(parts), h.st, TRUE, texts, dbOut)
           ELSE ProcessParts(Tail(parts), st, TRUE, texts, dbOut)
      ELSE IF part.text # <<>>
      THEN ProcessParts(Tail(parts), st, found, Append(texts, part.text), dbOut)
      ELSE ProcessParts(Tail(parts), st, found, texts, dbOut)

\* types.Part.from_function_response(name=..., response={"success": True})
FunctionResponse(name) == [kind |-> "function_response", name |-> name, success |-> TRUE]

\* function_response_parts as the loop over the parts leaves it: a response
\* is appended for a function call named update_user_profile
RECURSIVE FunctionResponseParts(_)
FunctionResponseParts(parts) ==
    IF parts = <<>> THEN <<>>
    ELSE LET part == Head(parts) IN
      IF part.kind = "call" /\ part.name = "update_user_profile"
      THEN <<FunctionResponse(part.name)>> \o FunctionResponseParts(Tail(parts))
      ELSE FunctionResponseParts(Tail(parts))

\* the prompt argument of initial_call_response
Prompts == {"", "intake prompt"}

\* contents of the first generate_content call: the prompt, when there is
\* one, is inserted before the list of _build_contents
FirstCallContents(contents, prompt) ==
    IF prompt # "" THEN <<UserEntry(prompt)>> \o contents ELSE contents

\* contents of the second generate_content call: the content of the model's
\* response and a user turn of the function responses are appended
SecondCallContents(contents, parts) ==
    contents \o <<[role |-> "model", parts |-> parts],
                  [role |-> "user", parts |-> FunctionResponseParts(parts)]>>

FinalOutcomes == {"ok", "empty", "raise"}

\* what initial_call_response returns for the parts of the first response;
\* final is the outcome of the second generate_content call, should one be made
InitialCallReply(parts, st, dbOut, final) ==
    LET pr == ProcessParts(parts, st, FALSE, <<>>, dbOut) IN
    IF pr.raised THEN [raised |-> TRUE, ret |-> <<>>, st |-> pr.st, second |-> FALSE]
    ELSE IF pr.found
    THEN IF IsProfileComplete(pr.st)
         THEN [raised |-> FALSE, ret |-> ClosingMessage, st |-> pr.st, second |-> FALSE]
         ELSE [raised |-> final = "raise",
               ret |-> IF final = "ok" THEN FinalText ELSE <<>>,
               st |-> pr.st, second |-> TRUE]
    ELSE [raised |-> FALSE, ret |-> JoinTexts(pr.texts), st |-> pr.st, second |-> FALSE]

\* the row and the Session as a call leaves them
StoreProfile(u, st) ==
    /\ profiles' = IF st.row THEN profiles \cup {u} ELSE profiles \ {u}
    /\ fields' = [fields EXCEPT ![u] = st.fields]
    /\ memories' = [memories EXCEPT ![u] = st.mems]
    /\ pending' = [pending EXCEPT ![u] = st.pending]

(***************************************************************************)
(* _build_goals_context: the descriptions of the user's ten most recently  *)
(* created Active goals, newest first; <<>> stands for None.  dbOut is the *)
(* outcome of the query.                                                   *)
(***************************************************************************)
Reverse(s) == [i \in 1..Len(s) |-> s[Len(s) + 1 - i]]

IsActive(g) == g.status = "Active"

BuildGoalsContext(u, dbOut) ==
    IF dbOut = "raise" THEN <<>>
    ELSE LET active == Reverse(SelectSeq(goals[u], IsActive))
             shown  == SubSeq(active, 1, Min(GoalContextCap, Len(active)))
         IN [i \in 1..Len(shown) |-> shown[i].description]

(***************************************************************************)
(* _build_memories_context: the contents of the last fifteen memories      *)
(***************************************************************************)
\* the first fifteen memories in place of the last
BuildMemoriesContextOldest(u, dbOut) ==
    IF dbOut = "raise" \/ u \notin profiles \/ memories[u] = <<>> THEN <<>>
    ELSE LET oldest == SubSeq(memories[u], 1, Min(MemoryContextCap, Len(memories[u])))
         IN [i \in 1..Len(oldest) |-> oldest[i].content]

BuildMemoriesContext(u, dbOut) ==
    IF dbOut = "raise" \/ u \notin profiles \/ memories[u] = <<>> THEN <<>>
    ELSE LET recent == IF Len(memories[u]) > MemoryContextCap
                       THEN SliceLast(memories[u], MemoryContextCap)
                       ELSE memories[u]
         IN [i \in 1..Len(recent) |-> recent[i].content]

\* a failed read ending the assembly after the system prompt
BuildSystemInstructionAbortOnFailure(u, gOut, mOut, c, ct, f, t) ==
    LET ld == LoadSummary(c, ct, f, t) IN
    [parts |-> <<[kind |-> "prompt", body |-> <<"system_prompt">>]>>
               \o (IF Truthy(ld.ret) /\ gOut = "ok" /\ mOut = "ok"
                   THEN <<[kind |-> "summary", body |-> <<ld.ret>>]>> ELSE <<>>),
     cache |-> ld.cache, ctime |-> ld.ctime]

(***************************************************************************)
(* _build_system_instruction: the parts joined into the instruction, and   *)
(* the cache after the load of the summary                                 *)
(***************************************************************************)
BuildSystemInstruction(u, gOut, mOut, c, ct, f, t) ==
    LET gc == BuildGoalsContext(u, gOut)
        mc == BuildMemoriesContext(u, mOut)
        ld == LoadSummary(c, ct, f, t)
    IN [parts |-> <<[kind |-> "prompt", body |-> <<"system_prompt">>]>>
                  \o (IF gc # <<>> THEN <<[kind |-> "goals", body |-> gc]>> ELSE <<>>)
                  \o (IF mc # <<>> THEN <<[kind |-> "memories", body |-> mc]>> ELSE <<>>)
                  \o (IF Truthy(ld.ret) THEN <<[kind |-> "summary", body |-> <<ld.ret>>]>> ELSE <<>>),
        cache |-> ld.cache, ctime |-> ld.ctime]

DbReads == {"ok", "raise"}

(***************************************************************************)
(* _extract_memories: reply is the outcome of the extraction call          *)
(***************************************************************************)
MemoryReplies == {"raise", "NONE", "list"}

ReplyList(reply) == IF reply = "list" THEN << <<"likes tea">> >> ELSE <<>>

ExtractMemories(h, c, ct, f, t, sumOut, id, reply) ==
    LET cx == IF h # <<>>
              THEN BuildConversationContext(h, c, ct, f, t, sumOut, id)
              ELSE [raised |-> FALSE, hist |-> <<>>, summary |-> None, calls |-> <<>>,
                    cache |-> c, ctime |-> ct, file |-> f]
    IN [raised |-> cx.raised,
        memories |-> IF cx.raised \/ reply = "raise" THEN <<>> ELSE ReplyList(reply),
        calls |-> cx.calls, text |-> cx.summary,
        cache |-> cx.cache, ctime |-> cx.ctime, file |-> cx.file]

(***************************************************************************)
(* save_memories_to_db: the user's list and profile row after the call     *)
(***************************************************************************)
DbWrites == {"ok", "fail"}

\* the new memories put before the stored ones
SaveMemoriesPrepend(list, u, dbOut) ==
    [raised |-> FALSE,
     mems |-> [i \in 1..Len(list) |-> [content |-> list[i]]] \o memories[u],
     profiles |-> profiles \cup {u}]

\* a failed commit taken for a successful one
SaveMemoriesSwallow(list, u, dbOut) ==
    IF list = <<>> \/ dbOut = "fail"
    THEN [raised |-> FALSE, mems |-> memories[u], profiles |-> profiles]
    ELSE [raised |-> FALSE,
          mems |-> memories[u] \o [i \in 1..Len(list) |-> [content |-> list[i]]],
          profiles |-> profiles \cup {u}]

SaveMemoriesToDb(list, u, dbOut) ==
    IF list = <<>>
    THEN [raised |-> FALSE, mems |-> memories[u], profiles |-> profiles]
    ELSE IF dbOut = "fail"
    THEN [raised |-> TRUE, mems |-> memories[u], profiles |-> profiles]
    ELSE [raised |-> FALSE,
          mems |-> memories[u] \o [i \in 1..Len(list) |-> [content |-> list[i]]],
          profiles |-> profiles \cup {u}]

\* the reply may hold a list only while the user's list has room for it
ReplyAllowed(u, reply) == Len(memories[u]) + Len(ReplyList(reply)) <= MaxMemories

(***************************************************************************)
(* stream_chat_response(text, history, user_id, db): a call with more      *)
(* positional arguments than the function takes raises TypeError           *)
(***************************************************************************)
ChatArgs == <<"message", "history_dict", "user.id", "db">>

MultimodalArgs == <<"message", "history_dict", "user.id", "db", "file_data">>

StreamChatResponse(args) ==
    IF Len(args) > StreamChatResponseMaxArgs THEN "TypeError" ELSE "generator"

\* the user whose profile the intake and the direct calls work on
ProfileUser == 1

(***************************************************************************)
(* The route creates the generator; nothing of its body has run yet        *)
(***************************************************************************)
StartRequest ==
    /\ rpc = "idle"
    /\ requests < MaxRequests
    /\ \E kind \in {"chat", "multimodal", "intake"}, u \in Users, n \in StreamLens,
          text \in Texts, k \in FileCounts :
         /\ kind # "multimodal" => (text # "" /\ k = 0)
         /\ (kind = "multimodal" /\ k = 0) => text # ""
         /\ kind = "multimodal" => n = 0
         /\ kind = "intake" => u = ProfileUser
         /\ req' = [kind |-> kind, user |-> u, hist |-> MkHistory(u, n, 0),
                    text |-> text, files |-> k]
    /\ rpc' = "created"
    /\ frames' = <<>>
    /\ resp' = NoResp
    /\ sent' = NotSent
    /\ trace' = NoTrace
    /\ requests' = requests + 1
    /\ UNCHANGED <<summaryVars, clockVars, last, local, dbVars, bgTasks>>

\* the error frame yielded without leaving the generator
FailAndGoOn == /\ frames' = Append(frames, "error")
               /\ rpc' = rpc

\* except Exception: yield the error frame; the generator then returns
Fail == /\ frames' = Append(frames, "error")
        /\ rpc' = "closed"

(***************************************************************************)
(* _generate_stream / _generate_stream_multimodal up to the creation of    *)
(* the LLM stream in stream_response                                       *)
(***************************************************************************)
StreamOpen ==
    /\ rpc = "created"
    /\ req.kind \in {"chat", "multimodal"}
    /\ \E gOut \in DbReads, mOut \in DbReads, sumOut \in LLMOutcomes, llm \in {"ok", "raise"} :
         LET call == StreamChatResponse(IF req.kind = "chat" THEN ChatArgs ELSE MultimodalArgs)
             si == BuildSystemInstruction(req.user, gOut, mOut, summaryCache,
                                          summaryCacheTime, summaryFile, now)
             bc == BuildContents(req.text, req.hist, si.cache, si.ctime, summaryFile,
                                 now, sumOut, nextSummaryId + 1)
         IN IF call = "TypeError"
            THEN /\ gOut = "ok" /\ mOut = "ok" /\ sumOut = "ok" /\ llm = "ok"
                 /\ Fail
                 /\ UNCHANGED <<summaryVars, sent, trace>>
            ELSE /\ OutcomeAllowed(req.hist, sumOut)
                 /\ bc.raised => llm = "ok"
                 /\ summaryCache' = bc.cache
                 /\ summaryCacheTime' = bc.ctime
                 /\ summaryFile' = bc.file
                 /\ nextSummaryId' = IF UsesSummaryId(bc.calls, sumOut)
                                     THEN nextSummaryId + 1 ELSE nextSummaryId
                 /\ trace' = [trace EXCEPT !.newSummary = IF bc.raised \/ bc.calls = <<>>
                                                          THEN None ELSE bc.file.summary]
                 /\ IF bc.raised \/ llm = "raise"
                    THEN Fail /\ UNCHANGED sent
                    ELSE /\ sent' = [called |-> TRUE, sys |-> si.parts, contents |-> bc.contents]
                         /\ rpc' = "streaming"
                         /\ UNCHANGED frames
    /\ UNCHANGED <<clockVars, last, local, dbVars, req, resp, bgTasks, requests>>

(***************************************************************************)
(* One chunk of the LLM stream: a text, a text of blanks only, an empty    *)
(* text (not yielded), or a failure of the stream                          *)
(***************************************************************************)
StreamChunk ==
    /\ rpc = "streaming"
    /\ \E c \in {"text", "blank", "empty", "raise"} :
         IF c = "raise"
         THEN Fail /\ UNCHANGED resp
         ELSE /\ Len(frames) < MaxChunks
              /\ resp' = [nonBlank |-> resp.nonBlank \/ c = "text"]
              /\ frames' = IF c = "empty" THEN frames ELSE Append(frames, "chunk")
              /\ UNCHANGED rpc
    /\ UNCHANGED <<summaryVars, clockVars, last, local, dbVars, req, sent, trace, bgTasks, requests>>

(***************************************************************************)
(* The LLM stream ends: memory extraction and the done frame               *)
(***************************************************************************)
StreamEnd ==
    /\ rpc = "streaming"
    /\ \E sumOut \in LLMOutcomes, reply \in MemoryReplies, dbOut \in DbWrites :
         LET em == IF resp.nonBlank
                   THEN ExtractMemories(req.hist, summaryCache, summaryCacheTime, summaryFile,
                                        now, sumOut, nextSummaryId + 1, reply)
                   ELSE [raised |-> FALSE, memories |-> <<>>, calls |-> <<>>, text |-> None,
                         cache |-> summaryCache, ctime |-> summaryCacheTime,
                         file |-> summaryFile]
             sv == SaveMemoriesToDb(em.memories, req.user, dbOut)
         IN /\ IF resp.nonBlank
               THEN /\ OutcomeAllowed(req.hist, sumOut)
                    /\ ReplyAllowed(req.user, reply)
                    /\ em.raised => reply = "NONE"
                    /\ em.memories = <<>> => dbOut = "ok"
               ELSE sumOut = "ok" /\ reply = "NONE" /\ dbOut = "ok"
            /\ summaryCache' = em.cache
            /\ summaryCacheTime' = em.ctime
            /\ summaryFile' = em.file
            /\ nextSummaryId' = IF UsesSummaryId(em.calls, sumOut)
                                THEN nextSummaryId + 1 ELSE nextSummaryId
            /\ memories' = [memories EXCEPT ![req.user] = sv.mems]
            /\ profiles' = sv.profiles
            /\ trace' = [trace EXCEPT !.streamEnded = TRUE,
                                      !.extractRaised = em.raised,
                                      !.saveRaised = ~em.raised /\ sv.raised]
            /\ frames' = Append(frames, IF em.raised \/ sv.raised THEN "error" ELSE "done")
            /\ rpc' = "closed"
    /\ UNCHANGED <<clockVars, last, local, goals, chats, messages, fields, pending, req, resp, sent,
                   bgTasks, requests>>

(***************************************************************************)
(* _generate_initial_call_response_with_save up to its first yield:        *)
(* generate_initial_call_response, the coach message, the detached thread  *)
(***************************************************************************)
\* model responses to the intake turn: a text, or one update_user_profile call
IntakeResponses ==
    { <<TextPart>>,
      <<ToolCall([key |-> "memories", value |-> <<"[", "'likes tea'", "]">>])>> }

IntakeRun ==
    /\ rpc = "created"
    /\ req.kind = "intake"
    /\ Cardinality(bgTasks) < MaxBackground
    /\ \E sumOut \in LLMOutcomes, llm \in {"ok", "raise"}, dbOut \in DbWrites,
          parts \in IntakeResponses, final \in {"ok", "raise"} :
         LET bc == BuildContents(req.text, req.hist, summaryCache, summaryCacheTime,
                                 summaryFile, now, sumOut, nextSummaryId + 1)
             rp == InitialCallReply(parts, ProfileState(req.user), dbOut, final)
         IN /\ OutcomeAllowed(req.hist, sumOut)
            /\ bc.raised => llm = "ok"
            /\ (bc.raised \/ llm = "raise") =>
                  (dbOut = "ok" /\ parts = <<TextPart>> /\ final = "ok")
            /\ final = "raise" => (rp.second /\ dbOut = "ok")
            /\ Len(rp.st.mems) <= MaxMemories
            /\ summaryCache' = bc.cache
            /\ summaryCacheTime' = bc.ctime
            /\ summaryFile' = bc.file
            /\ nextSummaryId' = IF UsesSummaryId(bc.calls, sumOut)
                                THEN nextSummaryId + 1 ELSE nextSummaryId
            /\ UNCHANGED trace
            /\ IF bc.raised \/ llm = "raise" \/ dbOut = "fail" \/ rp.raised
               THEN /\ Fail
                    /\ UNCHANGED <<sent, messages, bgTasks, profiles, memories, fields,
                                   pending>>
               ELSE /\ StoreProfile(req.user, rp.st)
                    /\ sent' = [called |-> TRUE, sys |-> <<>>, contents |-> bc.contents]
                    /\ messages' = messages \cup {[sender |-> "coach", user |-> req.user, chat_id |-> 0]}
                    /\ bgTasks' = bgTasks \cup {[user |-> req.user, hist |-> req.hist]}
                    /\ frames' = Append(frames, "chunk")
                    /\ rpc' = "yielded"
    /\ UNCHANGED <<clockVars, last, local, goals, chats, req, resp, requests>>

IntakeDone ==
    /\ rpc = "yielded"
    /\ frames' = Append(frames, "done")
    /\ rpc' = "closed"
    /\ UNCHANGED <<summaryVars, clockVars, last, local, dbVars, req, resp, sent, trace,
                   bgTasks, requests>>

(***************************************************************************)
(* _extract_memories_background, run by a detached thread on a session of  *)
(* its own; every exception is swallowed                                   *)
(***************************************************************************)
\* the Session that get_db opens for a request, and the one a call of
\* SessionLocal() in the thread opens
RequestSession == [opened_by |-> "get_db"]
ThreadSession == [opened_by |-> "_extract_memories_background"]

\* the thread working on the Session of the request that started it
BackgroundOnRequestSession(em, sv) ==
    [db |-> RequestSession, swallowed |-> em.raised \/ sv.raised, propagated |-> FALSE]

\* what the thread did: the Session it worked on, whether its except clause
\* caught an exception, and whether one left the function
BackgroundOutcome(em, sv) ==
    [db |-> ThreadSession, swallowed |-> em.raised \/ sv.raised, propagated |-> FALSE]

BackgroundExtract ==
    \E task \in bgTasks, sumOut \in LLMOutcomes, reply \in MemoryReplies, dbOut \in DbWrites :
      LET em == ExtractMemories(task.hist, summaryCache, summaryCacheTime, summaryFile,
                                now, sumOut, nextSummaryId + 1, reply)
          sv == SaveMemoriesToDb(em.memories, task.user, dbOut)
          bo == BackgroundOutcome(em, sv)
      IN /\ OutcomeAllowed(task.hist, sumOut)
         /\ local' = [op |-> "background", db |-> bo.db,
                      swallowed |-> bo.swallowed, propagated |-> bo.propagated]
         /\ ReplyAllowed(task.user, reply)
         /\ em.raised => reply = "NONE"
         /\ em.memories = <<>> => dbOut = "ok"
         /\ summaryCache' = em.cache
         /\ summaryCacheTime' = em.ctime
         /\ summaryFile' = em.file
         /\ nextSummaryId' = IF UsesSummaryId(em.calls, sumOut)
                             THEN nextSummaryId + 1 ELSE nextSummaryId
         /\ memories' = [memories EXCEPT ![task.user] = sv.mems]
         /\ profiles' = sv.profiles
         /\ bgTasks' = bgTasks \ {task}
         /\ UNCHANGED <<clockVars, last, goals, chats, messages, fields, pending, rpc, req, frames,
                        resp, sent, trace, requests>>

(***************************************************************************)
(* The StreamingResponse has consumed the generator: the request is over   *)
(***************************************************************************)
ResponseSent ==
    /\ rpc = "closed"
    /\ rpc' = "idle"
    /\ req' = NoRequest
    /\ frames' = <<>>
    /\ resp' = NoResp
    /\ sent' = NotSent
    /\ trace' = NoTrace
    /\ UNCHANGED <<summaryVars, clockVars, last, local, dbVars, bgTasks, requests>>

StreamNext ==
    \/ Tick
    \/ StartRequest
    \/ StreamOpen
    \/ StreamChunk
    \/ StreamEnd
    \/ IntakeRun
    \/ IntakeDone
    \/ ResponseSent
    \/ BackgroundExtract

StreamSpec == Init /\ [][StreamNext]_vars

(***************************************************************************)
(* Direct calls on the profile of one user (ProfileSpec) and on the        *)
(* memory list (MemorySpec)                                                *)
(***************************************************************************)
NoteNames ==
    <<"note 1", "note 2", "note 3", "note 4", "note 5", "note 6", "note 7", "note 8",
      "note 9", "note 10", "note 11", "note 12", "note 13", "note 14", "note 15",
      "note 16", "note 17">>

\* n memories stored earlier
OldMemories(n) == [i \in 1..n |-> [content |-> <<NoteNames[i]>>]]

InitFields ==
    { NoFields,
      [first_name |-> Unset, last_name |-> <<"Lee">>, birth_date |-> <<"1990-01-05">>],
      [first_name |-> <<"Ann">>, last_name |-> <<"Lee">>, birth_date |-> Unset] }

ProfileInit ==
    /\ fields \in {[u \in Users |-> IF u = ProfileUser THEN f ELSE NoFields] : f \in InitFields}
    /\ memories \in {[u \in Users |-> IF u = ProfileUser THEN OldMemories(n) ELSE <<>>] :
                        n \in {0, MinIntakeMemories - 1}}
    /\ profiles = IF fields[ProfileUser] = NoFields /\ memories[ProfileUser] = <<>>
                  THEN {} ELSE {ProfileUser}
    /\ pending = [u \in Users |-> 0]
    /\ last = [op |-> "none"]
    /\ summaryFile = NoFile
    /\ summaryCache = None
    /\ summaryCacheTime = 0
    /\ now = 0
    /\ ticks = 0
    /\ nextSummaryId = 0
    /\ goals = InitialGoals
    /\ messages = {}
    /\ rpc = "idle"
    /\ req = NoRequest
    /\ frames = <<>>
    /\ resp = NoResp
    /\ sent = NotSent
    /\ trace = NoTrace
    /\ bgTasks = {}
    /\ requests = 0
    /\ local = NoLocal
    /\ chats = NoChats

\* arguments of update_user_profile calls: the declared keys, a key outside
\* the declaration, and a call without the key
ToolArgs ==
    { [key |-> "first_name", value |-> <<"Ann">>],
      [key |-> "first_name", value |-> <<" ">>],
      [key |-> "last_name",  value |-> <<"Lee">>],
      [key |-> "birth_date", value |-> <<"1990-01-05">>],
      [key |-> "birth_date", value |-> <<"not-a-date">>],
      [key |-> "memories",   value |-> <<"[", "'likes tea'", "]">>],
      [key |-> "memories",   value |-> <<"[", "'  '", "]">>],
      [key |-> "memories",   value |-> <<"none">>],
      [key |-> "nickname",   value |-> <<"Annie">>],
      [value |-> <<"Ann">>] }

WithinProfileBounds(st) ==
    /\ st.pending <= MaxPending
    /\ Len(st.mems) <= MinIntakeMemories + MaxExtraMemories

CallHandleUpdateUserProfile ==
    \E args \in ToolArgs, dbOut \in DbWrites :
      LET pre == ProfileState(ProfileUser)
          h   == HandleUpdateUserProfile(args, pre, dbOut)
      IN /\ dbOut = "fail" => h # HandleUpdateUserProfile(args, pre, "ok")
         /\ WithinProfileBounds(h.st)
         /\ StoreProfile(ProfileUser, h.st)
         /\ last' = [op |-> "update_profile", args |-> args, db |-> dbOut,
                     raised |-> h.raised, pre |-> pre]
         /\ UNCHANGED <<summaryVars, clockVars, goals, chats, messages, streamVars, local>>

\* the parts of one model response
ResponseParts ==
    { ToolCall([key |-> "first_name", value |-> <<"Ann">>]),
      ToolCall([key |-> "birth_date", value |-> <<"not-a-date">>]),
      ToolCall([key |-> "memories",   value |-> <<"[", "'likes tea'", "]">>]),
      OtherCall,
      TextPart }

PartCounts == {0, 1}

\* responses of two parts: a rejected update before an accepted one, two
\* accepted updates, a text before a function call, two texts
TwoPartResponses ==
    { <<ToolCall([key |-> "birth_date", value |-> <<"not-a-date">>]),
        ToolCall([key |-> "memories",   value |-> <<"[", "'likes tea'", "]">>])>>,
      <<ToolCall([key |-> "birth_date", value |-> <<"not-a-date">>]),
        ToolCall([key |-> "first_name", value |-> <<"Ann">>])>>,
      <<ToolCall([key |-> "first_name", value |-> <<"Ann">>]),
        ToolCall([key |-> "memories",   value |-> <<"[", "'likes tea'", "]">>])>>,
      <<TextPart, OtherCall>>,
      <<TextPart, TextPart>> }

Responses == UNION {[1..n -> ResponseParts] : n \in PartCounts} \cup TwoPartResponses

\* initial_call_response(text, [], user_id, db, prompt)
CallInitialCallResponse ==
    \E parts \in Responses, llm \in {"ok", "raise"}, dbOut \in DbWrites, final \in FinalOutcomes,
       prompt \in Prompts :
      LET pre == ProfileState(ProfileUser)
          bc  == BuildContents("hello", <<>>, summaryCache, summaryCacheTime, summaryFile,
                               now, "ok", nextSummaryId + 1)
          first == FirstCallContents(bc.contents, prompt)
          rp  == InitialCallReply(parts, pre, dbOut, final)
      IN /\ llm = "raise" => (parts = <<>> /\ dbOut = "ok" /\ final = "ok")
         /\ prompt = "" => (dbOut = "ok" /\ final = "ok")
         /\ dbOut = "fail" => rp # InitialCallReply(parts, pre, "ok", final)
         /\ final # "ok" => rp.second
         /\ WithinProfileBounds(rp.st)
         /\ IF llm = "raise"
            THEN /\ UNCHANGED <<profiles, fields, memories, pending>>
                 /\ last' = [op |-> "initial_call", parts |-> parts, raised |-> TRUE,
                             ret |-> <<>>, pre |-> pre, contents |-> first,
                             llmCalls |-> <<first>>]
            ELSE /\ StoreProfile(ProfileUser, rp.st)
                 /\ last' = [op |-> "initial_call", parts |-> parts, raised |-> rp.raised,
                             ret |-> rp.ret, pre |-> pre, contents |-> first,
                             llmCalls |-> IF rp.second
                                          THEN <<first, SecondCallContents(first, parts)>>
                                          ELSE <<first>>]
         /\ UNCHANGED <<summaryVars, clockVars, goals, chats, messages, streamVars, local>>

\* db.add(coach_message); db.commit() of the caller after the reply
\* (app.py:354-362): the pending objects are inserted with the message,
\* which the unique user_id allows for one row only
CommitSession ==
    LET pre == ProfileState(ProfileUser) IN
    /\ pending[ProfileUser] > 0
    /\ profiles' = IF FlushFails(pre, 0) THEN profiles ELSE profiles \cup {ProfileUser}
    /\ pending' = [pending EXCEPT ![ProfileUser] = 0]
    /\ messages' = IF FlushFails(pre, 0) THEN messages
                   ELSE messages \cup {[sender |-> "coach", user |-> ProfileUser, chat_id |-> 0]}
    /\ last' = [op |-> "commit", raised |-> FlushFails(pre, 0), pre |-> pre]
    /\ UNCHANGED <<summaryVars, clockVars, goals, chats, memories, fields, streamVars, local>>

\* get_db: the Session is closed when the request is over
CloseSession ==
    /\ pending[ProfileUser] > 0
    /\ pending' = [pending EXCEPT ![ProfileUser] = 0]
    /\ last' = [op |-> "close"]
    /\ UNCHANGED <<summaryVars, clockVars, goals, chats, profiles, memories, messages, fields,
                   streamVars, local>>

ProfileNext ==
    \/ CallHandleUpdateUserProfile
    \/ CallInitialCallResponse
    \/ CommitSession
    \/ CloseSession

ProfileSpec == ProfileInit /\ [][ProfileNext]_vars

\* lists handed to save_memories_to_db
MemoryLists ==
    { <<>>,
      << <<"likes tea">> >>,
      << <<"FIRST_NAME: ", "Ann">>, <<"has a dog">> >> }

\* save_memories_to_db(list, user_id, db) on a Session that holds nothing else
CallSaveMemoriesToDb ==
    \E list \in MemoryLists, dbOut \in DbWrites :
      LET pre == ProfileState(ProfileUser)
          sv  == SaveMemoriesToDb(list, ProfileUser, dbOut)
      IN /\ dbOut = "fail" => list # <<>>
         /\ Len(sv.mems) <= MinIntakeMemories + MaxExtraMemories
         /\ memories' = [memories EXCEPT ![ProfileUser] = sv.mems]
         /\ profiles' = sv.profiles
         /\ last' = [op |-> "save_memories", list |-> list, db |-> dbOut,
                     raised |-> sv.raised, pre |-> pre]
         /\ UNCHANGED <<summaryVars, clockVars, goals, chats, messages, fields, pending, streamVars, local>>

\* memory ids of DELETE /api/memories/{memory_id}: the text of an integer, or not
MemoryIds ==
    {[n |-> i] : i \in (-1)..(MinIntakeMemories + MaxExtraMemories)} \cup {[text |-> "abc"]}

(***************************************************************************)
(* delete_memory: the status of the response and the list afterwards       *)
(***************************************************************************)
DeleteMemoryResult(id, u, dbOut) ==
    IF u \notin profiles THEN [status |-> 404, mems |-> memories[u]]
    ELSE IF "n" \notin DOMAIN id THEN [status |-> 400, mems |-> memories[u]]
    ELSE IF id.n < 0 \/ id.n >= Len(memories[u]) THEN [status |-> 404, mems |-> memories[u]]
    ELSE IF dbOut = "fail" THEN [status |-> 500, mems |-> memories[u]]
    ELSE [status |-> 200,
          mems |-> SubSeq(memories[u], 1, id.n) \o
                   SubSeq(memories[u], id.n + 2, Len(memories[u]))]

DeleteMemory ==
    \E id \in MemoryIds, dbOut \in DbWrites :
      LET pre == ProfileState(ProfileUser)
          dm  == DeleteMemoryResult(id, ProfileUser, dbOut)
      IN /\ dbOut = "fail" => dm.status = 500
         /\ memories' = [memories EXCEPT ![ProfileUser] = dm.mems]
         /\ last' = [op |-> "delete_memory", id |-> id, status |-> dm.status, pre |-> pre]
         /\ UNCHANGED <<summaryVars, clockVars, goals, chats, profiles, messages, fields, pending,
                        streamVars, local>>

MemoryNext ==
    \/ CallSaveMemoriesToDb
    \/ DeleteMemory

MemorySpec == ProfileInit /\ [][MemoryNext]_vars

(***************************************************************************)
(* Direct calls of the context assembly and of the summary store           *)
(* (ContextSpec).  The goals table and the memory lists are drawn at the   *)
(* start: tables with more Active goals than GoalContextCap, with goals of *)
(* other statuses and of another user, lists longer than MemoryContextCap. *)
(***************************************************************************)
GoalNames ==
    <<"goal 1", "goal 2", "goal 3", "goal 4", "goal 5", "goal 6", "goal 7", "goal 8",
      "goal 9", "goal 10", "goal 11", "goal 12", "goal 13", "goal 14">>

\* n goals in order of created_at, every fourth one Completed
GoalRows(n) ==
    [i \in 1..n |-> [description |-> GoalNames[i],
                     status |-> IF i % 4 = 0 THEN "Completed" ELSE "Active"]]

GoalCounts == {0, 3, Len(GoalNames)}

OnlyCompleted == <<[description |-> "goal 1", status |-> "Completed"]>>

MemoryCounts == {0, 2, MemoryContextCap + 2}

ContextInit ==
    /\ goals \in {[u \in Users |-> IF u = ProfileUser THEN g
                                    ELSE <<[description |-> "goal of user 2",
                                            status |-> "Active"]>>] :
                     g \in {GoalRows(n) : n \in GoalCounts} \cup {OnlyCompleted}}
    /\ memories \in {[u \in Users |-> IF u = ProfileUser THEN OldMemories(n) ELSE <<>>] :
                        n \in MemoryCounts}
    /\ profiles \in {{ProfileUser}} \cup
                    (IF memories[ProfileUser] = <<>> THEN {{}} ELSE {})
    /\ fields = [u \in Users |-> NoFields]
    /\ pending = [u \in Users |-> 0]
    /\ summaryFile \in {NoFile, [summary |-> PriorSummary]}
    /\ summaryCache = None
    /\ summaryCacheTime = 0
    /\ now = 0
    /\ ticks = 0
    /\ nextSummaryId = 0
    /\ last = NoCall
    /\ messages = {}
    /\ rpc = "idle"
    /\ req = NoRequest
    /\ frames = <<>>
    /\ resp = NoResp
    /\ sent = NotSent
    /\ trace = NoTrace
    /\ bgTasks = {}
    /\ requests = 0
    /\ local = NoLocal
    /\ chats = NoChats

NoRun == [valid |-> FALSE, user |-> 0, gOut |-> "ok", mOut |-> "ok", parts |-> <<>>]

\* _build_system_instruction(user_id, db); prev is the run before this one
\* when no other call was made in between
CallBuildSystemInstruction ==
    \E u \in Users, gOut \in DbReads, mOut \in DbReads :
      LET si == BuildSystemInstruction(u, gOut, mOut, summaryCache, summaryCacheTime,
                                       summaryFile, now)
      IN /\ summaryCache' = si.cache
         /\ summaryCacheTime' = si.ctime
         /\ last' = [op |-> "instruction", user |-> u, gOut |-> gOut, mOut |-> mOut,
                     parts |-> si.parts, pre |-> PreState,
                     prev |-> IF last.op = "instruction"
                              THEN [valid |-> TRUE, user |-> last.user, gOut |-> last.gOut,
                                    mOut |-> last.mOut, parts |-> last.parts]
                              ELSE NoRun]
         /\ UNCHANGED <<summaryFile, nextSummaryId, clockVars, dbVars, streamVars, local>>

\* _save_conversation_summary(summary): a new text, or the None that
\* _create_summary returns for an empty response
CallSaveSummary ==
    \E s \in {None, [id |-> nextSummaryId + 1, user |-> ProfileUser, covers |-> 1]} :
      LET sv == SaveSummary(s, now) IN
      /\ nextSummaryId < MaxSummaries
      /\ summaryFile' = sv.file
      /\ summaryCache' = sv.cache
      /\ summaryCacheTime' = sv.ctime
      /\ nextSummaryId' = nextSummaryId + 1
      /\ last' = [op |-> "save", s |-> s, pre |-> PreState]
      /\ UNCHANGED <<clockVars, dbVars, streamVars, local>>

ContextNext ==
    \/ Tick
    \/ CallLoadSummary
    \/ CallSaveSummary
    \/ CallBuildSystemInstruction

ContextSpec == ContextInit /\ [][ContextNext]_vars

(***************************************************************************)
(* A client that lists its memories and deletes by the ids of the listing  *)
(* (ListingSpec); local is the listing it holds                            *)
(***************************************************************************)
\* get_memories: the entries returned, the id is the position in the list
MemoriesListing(u) ==
    IF u \notin profiles THEN <<>>
    ELSE [i \in 1..Len(memories[u]) |-> [id |-> [n |-> i - 1],
                                         content |-> memories[u][i].content]]

GetMemories ==
    /\ local' = [op |-> "listing", items |-> MemoriesListing(ProfileUser)]
    /\ last' = [op |-> "get_memories", pre |-> ProfileState(ProfileUser)]
    /\ UNCHANGED <<summaryVars, clockVars, dbVars, streamVars>>

\* one more memory is saved for the user
ListingAppend ==
    /\ CallSaveMemoriesToDb
    /\ last'.list = << <<"likes tea">> >>

ListingNext ==
    \/ GetMemories
    \/ ListingAppend
    \/ DeleteMemory

ListingSpec == ProfileInit /\ [][ListingNext]_vars

(***************************************************************************)
(* The goal routes (GoalSpec): create_goal, update_goal_status and         *)
(* delete_goal.  A row of the goals table carries its primary key here.    *)
(***************************************************************************)
\* at most this many rows are in the table at a time
MaxGoals == 3

\* values of the status query parameter of PUT /api/goals/{goal_id}/status:
\* the route declares it as str, so any text reaches the handler
StatusParams == {"Active", "Completed", "Archived", "Paused"}

\* the primary keys a request may name: those handed out and one never used
GoalIds == 1..(MaxGoals + 1)

AllGoalIds == UNION {{goals[u][i].id : i \in DOMAIN goals[u]} : u \in Users}

\* the key SQLite gives to a new row: one more than the largest in the table
NewGoalId ==
    IF AllGoalIds = {} THEN 1
    ELSE 1 + CHOOSE m \in AllGoalIds : \A k \in AllGoalIds : k <= m

\* db.query(Goal).filter(Goal.id == goal_id, Goal.user_id == user).first():
\* the position of the row in the user's rows, 0 when there is none
GoalIndex(u, goal_id) ==
    IF \E i \in DOMAIN goals[u] : goals[u][i].id = goal_id
    THEN CHOOSE i \in DOMAIN goals[u] : goals[u][i].id = goal_id
    ELSE 0

GoalInit ==
    /\ goals = [u \in Users |-> <<>>]
    /\ profiles = {}
    /\ memories = [u \in Users |-> <<>>]
    /\ messages = {}
    /\ fields = [u \in Users |-> NoFields]
    /\ pending = [u \in Users |-> 0]
    /\ last = [op |-> "none"]
    /\ summaryFile = NoFile
    /\ summaryCache = None
    /\ summaryCacheTime = 0
    /\ now = 0
    /\ ticks = 0
    /\ nextSummaryId = 0
    /\ rpc = "idle"
    /\ req = NoRequest
    /\ frames = <<>>
    /\ resp = NoResp
    /\ sent = NotSent
    /\ trace = NoTrace
    /\ bgTasks = {}
    /\ requests = 0
    /\ local = NoLocal
    /\ chats = NoChats

\* create_goal: the row is built from title and description, its status is
\* the column default
CreateGoal ==
    \E u \in Users :
        /\ Cardinality(AllGoalIds) < MaxGoals
        /\ LET row == [id |-> NewGoalId, description |-> "goal", status |-> "Active"]
           IN /\ goals' = [goals EXCEPT ![u] = Append(@, row)]
              /\ last' = [op |-> "create_goal", user |-> u, code |-> 200, row |-> row]
        /\ UNCHANGED <<summaryVars, clockVars, chats, profiles, memories, messages, fields, pending,
                       streamVars, local>>

\* update_goal_status: 404 when the caller has no goal of that id, else the
\* parameter is assigned to the row and committed
UpdateGoalStatus ==
    \E u \in Users, goal_id \in GoalIds, status \in StatusParams :
        LET i == GoalIndex(u, goal_id)
        IN /\ goals' = IF i = 0 THEN goals
                       ELSE [goals EXCEPT ![u][i].status = status]
           /\ last' = [op |-> "update_goal_status", user |-> u, goal_id |-> goal_id,
                       status |-> status, code |-> IF i = 0 THEN 404 ELSE 200]
           /\ UNCHANGED <<summaryVars, clockVars, chats, profiles, memories, messages, fields,
                          pending, streamVars, local>>

\* delete_goal: 404 when the caller has no goal of that id, else the row goes
DeleteGoal ==
    \E u \in Users, goal_id \in GoalIds :
        LET i == GoalIndex(u, goal_id)
        IN /\ goals' = IF i = 0 THEN goals
                       ELSE [goals EXCEPT ![u] =
                                SubSeq(@, 1, i - 1) \o SubSeq(@, i + 1, Len(@))]
           /\ last' = [op |-> "delete_goal", user |-> u, goal_id |-> goal_id,
                       code |-> IF i = 0 THEN 404 ELSE 200]
           /\ UNCHANGED <<summaryVars, clockVars, chats, profiles, memories, messages, fields,
                          pending, streamVars, local>>

GoalNext ==
    \/ CreateGoal
    \/ UpdateGoalStatus
    \/ DeleteGoal

GoalSpec == GoalInit /\ [][GoalNext]_vars

(***************************************************************************)
(* save_message (MessageSpec).  Time is in seconds.  The handlers are      *)
(* coroutines without an await, so the event loop runs each call from its  *)
(* first statement to its return before the next one starts.               *)
(***************************************************************************)
\* app.py:603, timedelta(minutes=1) in seconds
DuplicateWindow == 60

\* at most this many rows are in the messages table
MaxMessages == 2
\* number of clock advances between the calls
MaxMessageTicks == 3
\* seconds the clock may advance between two calls
ClockSteps == {1, DuplicateWindow - 1}
\* seconds that pass between the duplicate check and the flush of the new row
FlushDelays == {0, 1}

\* the requests made: one message of user 1 in its chat 1, the same with
\* another content, with another sender, in the chat of user 2 and in a chat
\* that does not exist, and the message of user 2 in its own chat
MessageRequests ==
    { [user |-> 1, content |-> "hi", sender |-> "user", chat_id |-> 1],
      [user |-> 1, content |-> "ok", sender |-> "user", chat_id |-> 1],
      [user |-> 1, content |-> "hi", sender |-> "coach", chat_id |-> 1],
      [user |-> 1, content |-> "hi", sender |-> "user", chat_id |-> 2],
      [user |-> 1, content |-> "hi", sender |-> "user", chat_id |-> 3],
      [user |-> 2, content |-> "hi", sender |-> "user", chat_id |-> 2] }

\* the chats there are: chat 1 of user 1, chat 2 of user 2
InitialChats == <<[user |-> 1, updated_at |-> 0], [user |-> 2, updated_at |-> 0]>>

MessageInit ==
    /\ chats = InitialChats
    /\ messages = {}
    /\ goals = [u \in Users |-> <<>>]
    /\ profiles = {}
    /\ memories = [u \in Users |-> <<>>]
    /\ fields = [u \in Users |-> NoFields]
    /\ pending = [u \in Users |-> 0]
    /\ last = [op |-> "none"]
    /\ summaryFile = NoFile
    /\ summaryCache = None
    /\ summaryCacheTime = 0
    /\ now = 0
    /\ ticks = 0
    /\ nextSummaryId = 0
    /\ rpc = "idle"
    /\ req = NoRequest
    /\ frames = <<>>
    /\ resp = NoResp
    /\ sent = NotSent
    /\ trace = NoTrace
    /\ bgTasks = {}
    /\ requests = 0
    /\ local = NoLocal

\* the rows with the content, sender and chat of the request
SameMessages(msgs, data) ==
    {m \in msgs : /\ m.content = data.content
                  /\ m.sender = data.sender
                  /\ m.chat_id = data.chat_id}

\* order_by(Message.created_at.desc()).first() of a non-empty set of rows
LatestOf(rows) == CHOOSE m \in rows : \A k \in rows : k.created_at <= m.created_at

\* the mutant of SaveMessage that looks for a stored message of any sender
SaveMessageAnySender(u, data, t, d, msgs, chs) ==
    IF data.chat_id \notin DOMAIN chs \/ chs[data.chat_id].user # u
    THEN [code |-> 500, reply |-> "404: Chat not found", messages |-> msgs, chats |-> chs]
    ELSE LET same == {m \in msgs : m.content = data.content /\ m.chat_id = data.chat_id}
         IN IF same # {} /\ t - LatestOf(same).created_at < DuplicateWindow
            THEN [code |-> 200, reply |-> "Duplicate message not saved",
                  messages |-> msgs, chats |-> chs]
            ELSE [code |-> 200, reply |-> "Message saved successfully",
                  messages |-> msgs \cup {[id |-> Cardinality(msgs) + 1,
                                           content |-> data.content, sender |-> data.sender,
                                           user |-> u, chat_id |-> data.chat_id,
                                           created_at |-> t + d]},
                  chats |-> [chs EXCEPT ![data.chat_id].updated_at = t]]

\* save_message called by user u at time t; the new row is flushed at t + d.
\* The HTTPException for a chat that is not the caller's is raised inside the
\* try and caught by "except Exception", which answers 500.
SaveMessage(u, data, t, d, msgs, chs) ==
    IF data.chat_id \notin DOMAIN chs \/ chs[data.chat_id].user # u
    THEN [code |-> 500, reply |-> "404: Chat not found", messages |-> msgs, chats |-> chs]
    ELSE LET same == SameMessages(msgs, data)
         IN IF same # {} /\ t - LatestOf(same).created_at < DuplicateWindow
            THEN [code |-> 200, reply |-> "Duplicate message not saved",
                  messages |-> msgs, chats |-> chs]
            ELSE [code |-> 200, reply |-> "Message saved successfully",
                  messages |-> msgs \cup {[id |-> Cardinality(msgs) + 1,
                                           content |-> data.content, sender |-> data.sender,
                                           user |-> u, chat_id |-> data.chat_id,
                                           created_at |-> t + d]},
                  chats |-> [chs EXCEPT ![data.chat_id].updated_at = t]]

CallSaveMessage ==
    \E rq \in MessageRequests, d \in FlushDelays :
        LET u == rq.user
            data == [content |-> rq.content, sender |-> rq.sender, chat_id |-> rq.chat_id]
            r == SaveMessage(u, data, now, d, messages, chats)
        IN /\ Cardinality(messages) < MaxMessages
           /\ messages' = r.messages
           /\ chats' = r.chats
           /\ now' = IF r.messages # messages THEN now + d ELSE now
           /\ last' = [op |-> "save_message", user |-> u, data |-> data, code |-> r.code,
                       reply |-> r.reply, at |-> now,
                       pre |-> [messages |-> messages, chats |-> chats]]
           /\ UNCHANGED <<summaryVars, ticks, goals, profiles, memories, fields, pending,
                          streamVars, local>>

MessageTick ==
    \E step \in ClockSteps :
        /\ ticks < MaxMessageTicks
        /\ now' = now + step
        /\ ticks' = ticks + 1
        /\ UNCHANGED <<summaryVars, last, dbVars, streamVars, local>>

MessageNext ==
    \/ CallSaveMessage
    \/ MessageTick

MessageSpec == MessageInit /\ [][MessageNext]_vars

(***************************************************************************)
(* Threads that change the memory list of one user at the same time        *)
(* (RaceSpec).  A writer works on a Session of its own: it reads the row   *)
(* and the JSON list, changes its copy, and writes the copy back with its  *)
(* commit.  Nothing is locked between the read and the commit.  local      *)
(* holds what each writer has read.                                        *)
(***************************************************************************)
\* number of writers
MaxWriters == 2

WriterIds == 1..MaxWriters

IdleWriter == [pc |-> "idle", kind |-> "none", row |-> FALSE, seen |-> <<>>, new |-> <<>>,
               n |-> 0, ok |-> FALSE]

\* the writers; before the first step of a writer all are idle
Writers == IF local.op = "writers" THEN local.w ELSE [w \in WriterIds |-> IdleWriter]

\* the memory a saving writer appends
WriterNotes == <<"from writer 1", "from writer 2", "from writer 3">>

NewMemory(w) == [content |-> <<WriterNotes[w]>>]

\* save_memories_to_db up to json.loads(profile.memories), utils.py:194-199,
\* in a thread or a streaming request: the row and the list are read
SaveRead(w) ==
    /\ Writers[w].pc = "idle"
    /\ local' = [op |-> "writers",
                 w |-> [Writers EXCEPT ![w] =
                          [pc |-> "read", kind |-> "save", row |-> ProfileUser \in profiles,
                           seen |-> IF ProfileUser \in profiles THEN memories[ProfileUser]
                                    ELSE <<>>,
                           new |-> <<NewMemory(w)>>, n |-> 0, ok |-> FALSE]]]
    /\ UNCHANGED <<summaryVars, clockVars, last, dbVars, streamVars>>

\* save_memories_to_db from the append to the commit, utils.py:201-212: the
\* copy with the new memories is written.  A writer that found no row
\* inserts one, which fails when a row has been committed since.
SaveWrite(w) ==
    \E dbOut \in DbWrites :
      LET me == Writers[w]
          raised == dbOut = "fail" \/ (~me.row /\ ProfileUser \in profiles)
      IN /\ me.pc = "read"
         /\ me.kind = "save"
         /\ memories' = IF raised THEN memories
                        ELSE [memories EXCEPT ![ProfileUser] = me.seen \o me.new]
         /\ profiles' = IF raised THEN profiles ELSE profiles \cup {ProfileUser}
         /\ local' = [op |-> "writers",
                      w |-> [Writers EXCEPT ![w].pc = "done", ![w].ok = ~raised]]
         /\ UNCHANGED <<summaryVars, clockVars, last, goals, chats, messages, fields, pending,
                        streamVars>>

\* delete_memory up to json.loads, app.py:474-481: a request for the memory
\* with id n of a user that has a row
DeleteRead(w) ==
    \E n \in 0..1 :
      /\ Writers[w].pc = "idle"
      /\ ProfileUser \in profiles
      /\ n < Len(memories[ProfileUser])
      /\ local' = [op |-> "writers",
                   w |-> [Writers EXCEPT ![w] =
                            [pc |-> "read", kind |-> "delete", row |-> TRUE,
                             seen |-> memories[ProfileUser], new |-> <<>>, n |-> n,
                             ok |-> FALSE]]]
      /\ UNCHANGED <<summaryVars, clockVars, last, dbVars, streamVars>>

\* delete_memory from pop to the commit, app.py:483-490: the copy without the
\* entry is written
DeleteWrite(w) ==
    \E dbOut \in DbWrites :
      LET me == Writers[w]
      IN /\ me.pc = "read"
         /\ me.kind = "delete"
         /\ memories' = IF dbOut = "fail" THEN memories
                        ELSE [memories EXCEPT ![ProfileUser] =
                                SubSeq(me.seen, 1, me.n) \o
                                SubSeq(me.seen, me.n + 2, Len(me.seen))]
         /\ local' = [op |-> "writers",
                      w |-> [Writers EXCEPT ![w].pc = "done", ![w].ok = (dbOut = "ok")]]
         /\ UNCHANGED <<summaryVars, clockVars, last, goals, chats, profiles, messages, fields,
                        pending, streamVars>>

RaceNext ==
    \E w \in WriterIds :
        \/ SaveRead(w)
        \/ SaveWrite(w)
        \/ DeleteRead(w)
        \/ DeleteWrite(w)

RaceSpec == ProfileInit /\ [][RaceNext]_vars

(***************************************************************************)
(* Threads that call _save_conversation_summary and                        *)
(* _load_conversation_summary on the one client at the same time           *)
(* (CacheSpec): request threads and extraction threads.  Each statement    *)
(* that reads or writes the file or a cache attribute is a step; local     *)
(* holds the position and the local variables of each thread.              *)
(***************************************************************************)
\* number of threads
MaxThreads == 2

ThreadIds == 1..MaxThreads

IdleThread == [pc |-> "idle", kind |-> "none", summary |-> None, current_time |-> 0]

\* the threads; before the first step of a thread all are idle
Threads == IF local.op = "threads" THEN local.t ELSE [th \in ThreadIds |-> IdleThread]

ThreadsWith(th, rec) == [op |-> "threads", t |-> [Threads EXCEPT ![th] = rec]]

\* the text a thread saves
ThreadSummary(th) == [id |-> th, user |-> 1, covers |-> 1]

\* _save_conversation_summary, utils.py:81-82: the record is written
SaveWriteFile(th) ==
    /\ Threads[th].pc = "idle"
    /\ summaryFile' = [summary |-> ThreadSummary(th)]
    /\ local' = ThreadsWith(th, [pc |-> "file written", kind |-> "save",
                                 summary |-> ThreadSummary(th), current_time |-> 0])
    /\ UNCHANGED <<summaryCache, summaryCacheTime, nextSummaryId, clockVars, last, dbVars,
                   streamVars>>

\* utils.py:83, self._summary_cache = summary
SaveSetCache(th) ==
    /\ Threads[th].pc = "file written"
    /\ summaryCache' = Threads[th].summary
    /\ local' = ThreadsWith(th, [Threads[th] EXCEPT !.pc = "cache set"])
    /\ UNCHANGED <<summaryFile, summaryCacheTime, nextSummaryId, clockVars, last, dbVars,
                   streamVars>>

\* utils.py:84, self._summary_cache_time = time.time()
SaveSetTime(th) ==
    /\ Threads[th].pc = "cache set"
    /\ Threads[th].kind = "save"
    /\ summaryCacheTime' = now
    /\ local' = ThreadsWith(th, [Threads[th] EXCEPT !.pc = "done"])
    /\ UNCHANGED <<summaryFile, summaryCache, nextSummaryId, clockVars, last, dbVars,
                   streamVars>>

\* _load_conversation_summary, utils.py:59-64: the time is taken and the
\* cache is looked at; a fresh entry or a missing file ends the call
LoadCheck(th) ==
    /\ Threads[th].pc = "idle"
    /\ local' = ThreadsWith(th,
         IF Truthy(summaryCache) /\ now - summaryCacheTime < summary_cache_timeout
         THEN [pc |-> "done", kind |-> "load", summary |-> summaryCache, current_time |-> now]
         ELSE IF summaryFile = NoFile
         THEN [pc |-> "done", kind |-> "load", summary |-> None, current_time |-> now]
         ELSE [pc |-> "checked", kind |-> "load", summary |-> None, current_time |-> now])
    /\ UNCHANGED <<summaryVars, clockVars, last, dbVars, streamVars>>

\* utils.py:67-69, the record is read
LoadReadFile(th) ==
    /\ Threads[th].pc = "checked"
    /\ local' = ThreadsWith(th, [Threads[th] EXCEPT !.pc = "file read",
                                                    !.summary = summaryFile.summary])
    /\ UNCHANGED <<summaryVars, clockVars, last, dbVars, streamVars>>

\* utils.py:70, self._summary_cache = summary
LoadSetCache(th) ==
    /\ Threads[th].pc = "file read"
    /\ summaryCache' = Threads[th].summary
    /\ local' = ThreadsWith(th, [Threads[th] EXCEPT !.pc = "cache loaded"])
    /\ UNCHANGED <<summaryFile, summaryCacheTime, nextSummaryId, clockVars, last, dbVars,
                   streamVars>>

\* utils.py:71-72, self._summary_cache_time = current_time and the return
LoadSetTime(th) ==
    /\ Threads[th].pc = "cache loaded"
    /\ summaryCacheTime' = Threads[th].current_time
    /\ local' = ThreadsWith(th, [Threads[th] EXCEPT !.pc = "done"])
    /\ UNCHANGED <<summaryFile, summaryCache, nextSummaryId, clockVars, last, dbVars,
                   streamVars>>

CacheNext ==
    \/ Tick
    \/ \E th \in ThreadIds :
        \/ SaveWriteFile(th)
        \/ SaveSetCache(th)
        \/ SaveSetTime(th)
        \/ LoadCheck(th)
        \/ LoadReadFile(th)
        \/ LoadSetCache(th)
        \/ LoadSetTime(th)

CacheSpec == Init /\ [][CacheNext]_vars

(***************************************************************************)
(* Properties of the direct calls (Spec)                                   *)
(***************************************************************************)
Overflow(h) == SubSeq(h, 1, Len(h) - history_truncate_threshold)

Recent(h) == SubSeq(h, Len(h) - history_truncate_threshold + 1, Len(h))

StoredSummary(f) == IF f = NoFile THEN None ELSE f.summary

\* C1: a call of _build_conversation_context on a history of N > T turns
\* makes exactly one summarization call, on the turns [0, N-T), and returns
\* the T turns History[N-T:] in order together with the summary that call
\* created.
C1_TruncateSummarizesOverflow ==
    (last.op = "context" /\ Len(last.h) > history_truncate_threshold) =>
        /\ last.calls = <<Overflow(last.h)>>
        /\ ~last.raised =>
             /\ last.hist = Recent(last.h)
             /\ Len(last.hist) = history_truncate_threshold
             /\ last.llm = "ok" =>
                  /\ last.summary = SummaryText(nextSummaryId, Overflow(last.h))
                  /\ last.summary # StoredSummary(last.pre.file)
                  /\ last.summary # last.pre.cache
             /\ last.llm = "empty" => last.summary = None

C1_Witness ==
    /\ last.op = "context"
    /\ Len(last.h) = history_truncate_threshold + MaxOverflow
    /\ last.llm = "ok"
    /\ last.summary.covers = MaxOverflow
    /\ Len(last.hist) = history_truncate_threshold

\* C2 as stated: for every history of N <= T turns, no summarization call,
\* no write of the summary store, the history returned unchanged and the
\* existing summary returned whenever one exists.
C2_ShortHistorySurfacesSummary ==
    (last.op = "context" /\ Len(last.h) <= history_truncate_threshold) =>
        /\ last.calls = <<>>
        /\ summaryFile = last.pre.file
        /\ last.hist = last.h
        /\ last.summary = StoredSummary(last.pre.file)

\* C2 amended: the existing summary is returned for 1 <= N <= T; for the
\* empty history the call returns the empty history and no summary and
\* leaves store and cache untouched.
C2_ShortHistoryAmended ==
    (last.op = "context" /\ Len(last.h) <= history_truncate_threshold) =>
        /\ last.calls = <<>>
        /\ ~last.raised
        /\ summaryFile = last.pre.file
        /\ last.hist = last.h
        /\ Len(last.h) >= 1 => last.summary = StoredSummary(last.pre.file)
        /\ Len(last.h) = 0 =>
             /\ last.summary = None
             /\ summaryCache = last.pre.cache
             /\ summaryCacheTime = last.pre.ctime

C2_Witness ==
    /\ last.op = "context"
    /\ Len(last.h) = history_truncate_threshold
    /\ last.pre.file # NoFile
    /\ last.summary # None
    /\ last.pre.now - last.pre.ctime >= summary_cache_timeout

\* C4: _load_conversation_summary never answers from the cache once
\* now - cached_at >= TTL: it returns what the store holds (nothing when
\* there is no record) and a read of the store refreshes the cache entry and
\* its timestamp.
C4_ExpiredCacheReadsStore ==
    (last.op = "load" /\ last.pre.now - last.pre.ctime >= summary_cache_timeout) =>
        IF last.pre.file = NoFile
        THEN /\ last.summary = None
             /\ summaryCache = last.pre.cache
             /\ summaryCacheTime = last.pre.ctime
        ELSE /\ last.summary = last.pre.file.summary
             /\ summaryCache = last.pre.file.summary
             /\ summaryCacheTime = last.pre.now

C4_Witness ==
    /\ last.op = "load"
    /\ last.pre.cache # None
    /\ last.pre.now - last.pre.ctime = summary_cache_timeout
    /\ last.summary = last.pre.file.summary
    /\ summaryCacheTime = last.pre.now

\* C5 as stated: when the summarization call fails, the failure reaches the
\* caller, no truncated history is returned, and both the summary store and
\* the summary cache are as they were before the call.
C5_FailedSummaryLeavesCacheAlone ==
    (last.op = "context" /\ last.llm = "raise") =>
        /\ last.raised
        /\ last.hist = <<>>
        /\ summaryFile = last.pre.file
        /\ summaryCache = last.pre.cache
        /\ summaryCacheTime = last.pre.ctime

\* C5 amended: when the summarization call fails, the failure reaches the
\* caller, no truncated history is returned and the store is unchanged; the
\* cache is either unchanged or holds what the load that precedes the
\* summarization read from the store, stamped with the time of the call.
C5_FailedSummaryAmended ==
    (last.op = "context" /\ last.llm = "raise") =>
        /\ last.raised
        /\ last.hist = <<>>
        /\ last.summary = None
        /\ summaryFile = last.pre.file
        /\ \/ /\ summaryCache = last.pre.cache
              /\ summaryCacheTime = last.pre.ctime
           \/ /\ last.pre.file # NoFile
              /\ summaryCache = last.pre.file.summary
              /\ summaryCacheTime = last.pre.now

C5_Witness ==
    /\ last.op = "context"
    /\ last.llm = "raise"
    /\ last.raised
    /\ last.pre.cache = None
    /\ summaryCache # None

ClaimedRole(role) ==
    CASE role = "assistant" -> "model"
      [] role = "user"      -> "user"
      [] role = "system"    -> "user"
      [] OTHER              -> "user"

AmendedRole(role) ==
    CASE role = "assistant" -> "model"
      [] role = "model"     -> "model"
      [] OTHER              -> "user"

Truncated(h) == IF Len(h) > history_truncate_threshold THEN Recent(h) ELSE h

ContentsShape(RoleMap(_)) ==
    LET th == Truncated(last.h) IN
    /\ Len(last.contents) = Len(th) + 1
    /\ Len(last.contents) > 0
    /\ \A i \in 1..Len(th) :
         /\ last.contents[i].role = RoleMap(th[i].role)
         /\ last.contents[i].parts = <<[text |-> th[i].content]>>
    /\ last.contents[Len(last.contents)].role = "user"
    /\ last.contents[Len(last.contents)].parts = <<[text |-> last.text]>>

\* C9 as stated: the list built by _build_contents has one entry per
\* truncated-history turn, in order, with the role mapped assistant -> model,
\* user -> user, system -> user, any other role -> user, followed by the
\* current user turn with the input text; its length is
\* len(truncated History) + 1.
C9_ContentsRolesAsClaimed ==
    (last.op = "contents" /\ ~last.raised) => ContentsShape(ClaimedRole)

\* C9 amended: as stated, except that a turn whose role is "model" keeps
\* the role model (assistant -> model, model -> model, every other role ->
\* user).
C9_ContentsRolesAmended ==
    (last.op = "contents" /\ ~last.raised) => ContentsShape(AmendedRole)

C9_Witness ==
    /\ last.op = "contents"
    /\ ~last.raised
    /\ Len(last.h) = history_truncate_threshold + 1
    /\ Len(last.contents) = history_truncate_threshold + 1
    /\ \E i \in 1..Len(last.contents) : last.contents[i].role = "model"
    /\ last.text = ""

(***************************************************************************)
(* Properties of the stream generators (StreamSpec)                        *)
(***************************************************************************)
SummaryBlocks(sys) == {i \in 1..Len(sys) : sys[i].kind = "summary"}

ExpectedMessages(h, text) ==
    [i \in 1..Len(Truncated(h)) |-> ContentEntry(Truncated(h)[i])] \o <<UserEntry(text)>>

\* C3: in a chat turn with a history of N > T turns, the system instruction
\* sent to the LLM in that turn contains the summary created in that turn,
\* and the messages sent are the turns N-T..N-1 followed by the current
\* user turn.
C3_InstructionCarriesNewSummary ==
    (req.kind = "chat" /\ sent.called /\ Len(req.hist) > history_truncate_threshold
        /\ trace.newSummary # None) =>
        /\ sent.contents = ExpectedMessages(req.hist, req.text)
        /\ \E i \in SummaryBlocks(sent.sys) : sent.sys[i].body = <<trace.newSummary>>

\* C6: no failure inside _extract_memories escapes it: a chat stream whose
\* LLM stream ended, and whose extracted memories (if any) were saved, ends
\* with the done frame.
C6_ExtractionNeverAbortsStream ==
    (rpc = "closed" /\ trace.streamEnded /\ ~trace.saveRaised) =>
        /\ ~trace.extractRaised
        /\ frames[Len(frames)] = "done"

Terminal == {"done", "error"}

\* C7: the frames of every chat stream are zero or more chunk frames
\* followed by exactly one terminal frame (done or error): while the
\* generator is running it has yielded chunk frames only, and when it has
\* returned the last frame, and only the last, is terminal.
C7_ChunksThenOneTerminal ==
    /\ \A i \in 1..(Len(frames) - 1) : frames[i] = "chunk"
    /\ rpc = "closed" => (Len(frames) >= 1 /\ frames[Len(frames)] \in Terminal)
    /\ rpc \in {"created", "streaming", "yielded"} =>
           \A i \in 1..Len(frames) : frames[i] = "chunk"
    /\ rpc = "idle" => frames = <<>>

C7_Witness ==
    /\ rpc = "closed"
    /\ req.kind = "chat"
    /\ frames = <<"chunk", "done">>

\* C8: a summary produced by truncating one user's history is never part
\* of the system instruction assembled for another user.
C8_SummaryOfSameUser ==
    (sent.called /\ req.kind = "chat") =>
        \A i \in SummaryBlocks(sent.sys) :
            sent.sys[i].body[1].id >= 1 => sent.sys[i].body[1].user = req.user

\* C10: a multimodal stream with k >= 1 attachments hands the LLM a message
\* list whose final entry holds k attachment items followed by one text
\* item, and ends without an error frame.
C10_MultimodalTurnIsSent ==
    (req.kind = "multimodal" /\ req.files >= 1 /\ rpc = "closed") =>
        /\ sent.called
        /\ Len(sent.contents[Len(sent.contents)].parts) = req.files + 1
        /\ frames[Len(frames)] = "done"

(***************************************************************************)
(* Properties of the reply parser (ParseSpec)                              *)
(***************************************************************************)
\* The written forms of the literal lists of at most n lexical pieces, each
\* with the string forms of its items: toks is the text without blanks,
\* strs the items in order.  An item is a run of string literals or a list.
RECURSIVE LiteralRuns(_)
LiteralRuns(n) ==
    IF n <= 0 THEN {}
    ELSE {[toks |-> <<l>>, str |-> LitValue(l)] : l \in Literals}
         \cup {[toks |-> <<l>> \o r.toks, str |-> LitValue(l) \o r.str] :
                  l \in Literals, r \in LiteralRuns(n - 1)}

RECURSIVE WrittenLists(_), WrittenItems(_), WrittenItemSeqs(_)
WrittenItems(n) ==
    LiteralRuns(n) \cup {[toks |-> w.toks, str |-> ReprOfList] : w \in WrittenLists(n)}

WrittenItemSeqs(n) ==
    IF n <= 0 THEN {}
    ELSE {[toks |-> e.toks, strs |-> <<e.str>>] : e \in WrittenItems(n)}
         \cup UNION {{[toks |-> e.toks \o <<",">> \o r.toks, strs |-> <<e.str>> \o r.strs] :
                         r \in WrittenItemSeqs(n - Len(e.toks) - 1)} :
                     e \in WrittenItems(n - 2)}

WrittenLists(n) ==
    IF n < 2 THEN {}
    ELSE {[toks |-> <<"[", "]">>, strs |-> <<>>]}
         \cup {[toks |-> <<"[">> \o q.toks \o <<"]">>, strs |-> q.strs] :
                  q \in WrittenItemSeqs(n - 2)}
         \cup {[toks |-> <<"[">> \o q.toks \o <<",", "]">>, strs |-> q.strs] :
                  q \in WrittenItemSeqs(n - 3)}

\* the text between the first "[" and the last "]" of a reply, blanks left out
Enclosed(content) ==
    LET opens  == {i \in 1..Len(content) : content[i] = "["}
        closes == {i \in 1..Len(content) : content[i] = "]"}
        lo == CHOOSE i \in opens : \A j \in opens : i <= j
        hi == CHOOSE i \in closes : \A j \in closes : j <= i
    IN SelectSeq(SubSeq(content, lo, hi), NotBlank)

HasBracketPair(content) ==
    /\ \E i \in 1..Len(content) : content[i] = "["
    /\ \E i \in 1..Len(content) : content[i] = "]"

\* what the claim expects of a reply
ExpectedMemories(reply) ==
    LET content == Strip(reply) IN
    IF content = <<>> \/ content = <<"none">> THEN <<>>
    ELSE IF ~HasBracketPair(content) THEN <<>>
    ELSE LET enc == Enclosed(content)
             written == {w \in WrittenLists(Len(enc)) : w.toks = enc}
         IN IF written = {} THEN <<>>
            ELSE NonBlankStripped((CHOOSE w \in written : TRUE).strs)

IsPrefix(a, b) == Len(a) <= Len(b) /\ SubSeq(b, 1, Len(a)) = a

AsMemories(list) == [i \in 1..Len(list) |-> [content |-> list[i]]]

\* C12: save_memories_to_db with a non-empty list puts one new memory per
\* string, in list order, after the stored memories and leaves a profile row
\* behind; with an empty list, or when it raises, the stored list and the row
\* are as before; a step that is not delete_memory keeps every stored memory
\* in place, and delete_memory removes at most the one memory it names.
C12_AppendOnlyUnderExtraction ==
    /\ (last.op = "save_memories" /\ last.list # <<>> /\ ~last.raised) =>
          /\ memories[ProfileUser] = last.pre.mems \o AsMemories(last.list)
          /\ ProfileUser \in profiles
    /\ (last.op = "save_memories" /\ (last.list = <<>> \/ last.raised)) =>
          /\ memories[ProfileUser] = last.pre.mems
          /\ (ProfileUser \in profiles) = last.pre.row
    /\ (last.op \notin {"none", "delete_memory"}) =>
          IsPrefix(last.pre.mems, memories[ProfileUser])
    /\ (last.op = "delete_memory") =>
          IF last.status = 200
          THEN /\ Len(memories[ProfileUser]) = Len(last.pre.mems) - 1
               /\ memories[ProfileUser] =
                     SubSeq(last.pre.mems, 1, last.id.n) \o
                     SubSeq(last.pre.mems, last.id.n + 2, Len(last.pre.mems))
          ELSE memories[ProfileUser] = last.pre.mems

\* two strings were saved after a stored list of four memories
C12_Witness ==
    /\ last.op = "save_memories"
    /\ Len(last.list) = 2
    /\ ~last.raised
    /\ Len(last.pre.mems) = MinIntakeMemories - 1
    /\ Len(memories[ProfileUser]) = MinIntakeMemories + 1

IsFieldMarker(item) == item # <<>> /\ item[1] = "FIRST_NAME: "

MarkerValue(item) == SubSeq(item, 2, Len(item))

\* C13: a saved string that begins with the field marker "FIRST_NAME: " sets the
\* profile's first name and is not among the memories stored by the call.
C13_MarkerRoutedToProfile ==
    (last.op = "save_memories" /\ ~last.raised) =>
       \A i \in 1..Len(last.list) :
          IsFieldMarker(last.list[i]) =>
             /\ fields[ProfileUser].first_name = MarkerValue(last.list[i])
             /\ \A j \in (Len(last.pre.mems) + 1)..Len(memories[ProfileUser]) :
                   memories[ProfileUser][j].content # last.list[i]

(***************************************************************************)
(* Properties of the profile intake (ProfileSpec)                          *)
(***************************************************************************)
HasKeyAndValue(args) == "key" \in DOMAIN args /\ "value" \in DOMAIN args

\* a key outside the declared ones, or a birth date that is no date
Rejected(args) ==
    /\ HasKeyAndValue(args)
    /\ \/ args.key \notin AllowedKeys \cup {"memories"}
       \/ args.key = "birth_date" /\ ~IsDate(args.value)

\* C18: _handle_update_user_profile called with a key outside the allow-list,
\* or with birth_date and a value that is not a YYYY-MM-DD date, raises
\* nothing and leaves first_name, last_name, birth_date and the memories as
\* they were; whether the user has a row is as before.
C18_RejectedUpdateChangesNothing ==
    (last.op = "update_profile" /\ Rejected(last.args)) =>
       /\ ~last.raised
       /\ fields[ProfileUser] = last.pre.fields
       /\ memories[ProfileUser] = last.pre.mems
       /\ (ProfileUser \in profiles) = last.pre.row

\* birth_date "not-a-date" was handed in for a profile without a birth date
C18_Witness ==
    /\ last.op = "update_profile"
    /\ last.args = [key |-> "birth_date", value |-> <<"not-a-date">>]
    /\ ~last.raised
    /\ last.pre.fields.birth_date = Unset
    /\ fields[ProfileUser].birth_date = Unset

\* an allowed key with a value the handler takes
Accepted(args) ==
    /\ HasKeyAndValue(args)
    /\ \/ args.key \in {"first_name", "last_name"}
       \/ args.key = "birth_date" /\ IsDate(args.value)
       \/ args.key = "memories" /\ _extract_list_from_response(args.value) # <<>>

\* C19: when _handle_update_user_profile returns for an allowed key and an
\* accepted value, and no write to the database failed, the user's row
\* exists, holds the new value (the new memories after the stored ones),
\* nothing is left uncommitted, and every other field is as before.
C19_AcceptedUpdatePersisted ==
    (last.op = "update_profile" /\ Accepted(last.args) /\ ~last.raised /\ last.db = "ok") =>
       /\ ProfileUser \in profiles
       /\ pending[ProfileUser] = 0
       /\ IF last.args.key = "memories"
          THEN /\ memories[ProfileUser] =
                     last.pre.mems \o AsMemories(_extract_list_from_response(last.args.value))
               /\ fields[ProfileUser] = last.pre.fields
          ELSE /\ fields[ProfileUser] =
                     [last.pre.fields EXCEPT ![last.args.key] = last.args.value]
               /\ memories[ProfileUser] = last.pre.mems

\* C20: after initial_call_response has returned, the value returned is the
\* closing message exactly when the intake is complete (the three fields
\* filled and at least MinIntakeMemories memories stored).
C20_ClosingIffComplete ==
    (last.op = "initial_call" /\ ~last.raised) =>
       (IsProfileComplete(ProfileState(ProfileUser)) <=> last.ret = ClosingMessage)

(***************************************************************************)
(* Properties of the context assembly (ContextSpec)                        *)
(***************************************************************************)
ActiveRows(u) == {i \in DOMAIN goals[u] : goals[u][i].status = "Active"}

\* the row of the k-th most recently created Active goal of the user
NewestActive(u, k) ==
    CHOOSE i \in ActiveRows(u) : Cardinality({j \in ActiveRows(u) : j > i}) = k - 1

ClaimedGoals(u) ==
    [k \in 1..Min(GoalContextCap, Cardinality(ActiveRows(u))) |->
        goals[u][NewestActive(u, k)].description]

ClaimedMemories(u) ==
    IF u \notin profiles THEN <<>>
    ELSE LET n == Min(MemoryContextCap, Len(memories[u])) IN
         [k \in 1..n |-> memories[u][Len(memories[u]) - n + k].content]

Range(f) == {f[i] : i \in DOMAIN f}

Kinds(parts) == [i \in 1..Len(parts) |-> parts[i].kind]

BlockOrder == <<"prompt", "goals", "memories", "summary">>

BodyOf(parts, kind) ==
    LET at == {i \in 1..Len(parts) : parts[i].kind = kind} IN
    IF at = {} THEN <<>> ELSE parts[CHOOSE i \in at : TRUE].body

IsOrdered(kinds) ==
    \E pick \in SUBSET (1..Len(BlockOrder)) :
       kinds = SelectSeq(BlockOrder, LAMBDA k : \E i \in pick : BlockOrder[i] = k)

\* C14: with goals and memories readable, the instruction holds the system
\* prompt, then the goals block, then the memories block, then the summary
\* block, each at most once; the goals block lists the user's most recently
\* created Active goals, newest first and at most GoalContextCap of them; the
\* memories block lists the last MemoryContextCap memories at most, in the
\* order they were added; the summary block holds the stored summary.
C14_InstructionBlocksInOrder ==
    (last.op = "instruction" /\ last.gOut = "ok" /\ last.mOut = "ok") =>
       /\ IsOrdered(Kinds(last.parts))
       /\ last.parts[1] = [kind |-> "prompt", body |-> <<"system_prompt">>]
       /\ BodyOf(last.parts, "goals") = ClaimedGoals(last.user)
       /\ Len(BodyOf(last.parts, "goals")) <= GoalContextCap
       /\ BodyOf(last.parts, "memories") = ClaimedMemories(last.user)
       /\ Len(BodyOf(last.parts, "memories")) <= MemoryContextCap
       /\ BodyOf(last.parts, "summary") =
             IF summaryFile # NoFile /\ Truthy(summaryFile.summary)
             THEN <<summaryFile.summary>> ELSE <<>>

\* both lists were longer than their caps and all four blocks are there
C14_Witness ==
    /\ last.op = "instruction"
    /\ last.gOut = "ok" /\ last.mOut = "ok"
    /\ Kinds(last.parts) = BlockOrder
    /\ Cardinality(ActiveRows(last.user)) > GoalContextCap
    /\ Len(memories[last.user]) > MemoryContextCap
    /\ Len(BodyOf(last.parts, "goals")) = GoalContextCap
    /\ Len(BodyOf(last.parts, "memories")) = MemoryContextCap

\* C15: whatever goals and memories the user has and whichever of the two
\* reads fails, the instruction starts with the system prompt, holds the
\* goals block exactly when the goals were read and one is Active, the
\* memories block exactly when the memories were read and one is stored, and
\* the summary block exactly when a summary is stored; the blocks it holds
\* are those of the run in which both reads succeed.
C15_MissingDataOmitsOnlyItsBlock ==
    (last.op = "instruction") =>
       LET full == BuildSystemInstruction(last.user, "ok", "ok", last.pre.cache,
                                          last.pre.ctime, last.pre.file, last.pre.now).parts
           u    == last.user
       IN /\ last.parts # <<>>
          /\ last.parts[1] = [kind |-> "prompt", body |-> <<"system_prompt">>]
          /\ ("goals" \in Range(Kinds(last.parts))) <=>
                (last.gOut = "ok" /\ ActiveRows(u) # {})
          /\ ("memories" \in Range(Kinds(last.parts))) <=>
                (last.mOut = "ok" /\ u \in profiles /\ memories[u] # <<>>)
          /\ ("summary" \in Range(Kinds(last.parts))) <=>
                (summaryFile # NoFile /\ Truthy(summaryFile.summary))
          /\ last.parts = SelectSeq(full, LAMBDA p : p.kind \in Range(Kinds(last.parts)))

\* the goals could not be read: their block is left out, the others are there
C15_Witness ==
    /\ last.op = "instruction"
    /\ last.gOut = "raise" /\ last.mOut = "ok"
    /\ ActiveRows(last.user) # {}
    /\ Kinds(last.parts) = <<"prompt", "memories", "summary">>

SameParts(a, b) ==
    /\ Len(a) = Len(b)
    /\ \A i \in 1..Len(a) : a[i].kind = b[i].kind /\ a[i].body = b[i].body

\* C16: two runs of _build_system_instruction for the same user, both reads
\* succeeding in both, with no call between them but the passing of time,
\* return the same instruction.
C16_AssemblyIdempotent ==
    (/\ last.op = "instruction"
     /\ last.prev.valid
     /\ last.prev.user = last.user
     /\ last.gOut = "ok" /\ last.mOut = "ok"
     /\ last.prev.gOut = "ok" /\ last.prev.mOut = "ok") =>
       SameParts(last.parts, last.prev.parts)

\* the second run found the cache expired and read the store again
C16_Witness ==
    /\ last.op = "instruction"
    /\ last.prev.valid
    /\ last.prev.user = last.user
    /\ last.gOut = "ok" /\ last.mOut = "ok"
    /\ last.prev.gOut = "ok" /\ last.prev.mOut = "ok"
    /\ "summary" \in Range(Kinds(last.parts))
    /\ Truthy(last.pre.cache)
    /\ last.pre.now - last.pre.ctime >= summary_cache_timeout
    /\ SameParts(last.parts, last.prev.parts)

\* C17: when _save_conversation_summary(s) has completed the store holds
\* exactly s, and the load that follows it returns s, whatever the store and
\* the cache held before and however long after the save the load is made.
C17_SaveReplacesWholesale ==
    [][ /\ (last'.op = "save") => (summaryFile' = [summary |-> last'.s])
        /\ (last.op = "save" /\ last'.op = "load") =>
              (last'.summary = last.s /\ summaryFile' = [summary |-> last.s]) ]_vars

\* a second summary was saved over the first and a load, made after the
\* cache had expired, returned it
C17_Witness ==
    /\ last.op = "load"
    /\ Truthy(last.summary)
    /\ last.summary.id = 2
    /\ last.pre.file = [summary |-> last.summary]
    /\ last.pre.now - last.pre.ctime >= summary_cache_timeout

\* C23: when the commit of save_memories_to_db fails the call raises, and
\* the user's memories, the profile row and the Session are what they were
\* before the call: none of the new strings is stored.
C23_FailedSaveRollsBack ==
    (last.op = "save_memories" /\ last.db = "fail") =>
       /\ last.raised
       /\ memories[ProfileUser] = last.pre.mems
       /\ (ProfileUser \in profiles) = last.pre.row
       /\ pending[ProfileUser] = 0

\* the commit failed while two strings were being saved after stored memories
C23_Witness ==
    /\ last.op = "save_memories"
    /\ last.db = "fail"
    /\ last.raised
    /\ Len(last.list) = 2
    /\ last.pre.mems # <<>>

(***************************************************************************)
(* Properties of the listing of memories (ListingSpec)                     *)
(***************************************************************************)
\* the entries of the listing held under the id
ListedUnder(id) ==
    IF local.op # "listing" THEN {}
    ELSE {local.items[i] : i \in {j \in 1..Len(local.items) : local.items[j].id = id}}

Contents(mems) == {mems[i].content : i \in 1..Len(mems)}

\* the memories taken out of a list by one deletion
Removed(before, after) ==
    {i \in 1..Len(before) :
        after = SubSeq(before, 1, i - 1) \o SubSeq(before, i + 1, Len(before))}

\* C28: a delete_memory that succeeds for an id of the client's listing, while
\* the memory listed under that id is still stored, removes that memory and no
\* other; for a stored list, an id out of range is answered with 404 and an id
\* that is no integer with 400, and the list is left as it was.
C28_IdsStayStable ==
    (last.op = "delete_memory" /\ last.pre.mems # <<>>) =>
       /\ (last.status = 200) =>
             \A e \in ListedUnder(last.id) :
                e.content \in Contents(last.pre.mems) =>
                   /\ Len(memories[ProfileUser]) = Len(last.pre.mems) - 1
                   /\ \E i \in Removed(last.pre.mems, memories[ProfileUser]) :
                         last.pre.mems[i].content = e.content
       /\ ("n" \notin DOMAIN last.id) =>
             (last.status = 400 /\ memories[ProfileUser] = last.pre.mems)
       /\ ("n" \in DOMAIN last.id /\ (last.id.n < 0 \/ last.id.n >= Len(last.pre.mems))) =>
             (last.status = 404 /\ memories[ProfileUser] = last.pre.mems)

\* C29: when the Session of an intake turn is committed with the coach
\* message, a user who had no profile row before the commit has none after
\* it: the update that was rejected has left nothing to store.
C29_RejectedUpdateLeavesNoRow ==
    (last.op = "commit" /\ ~last.pre.row) => ProfileUser \notin profiles

\* C27: when the first request served is a chat turn with a history longer
\* than the threshold and a non-blank response, then at the end of its
\* stream at most one summary text has been produced and the stored summary
\* is the one that the response path wrote.
C27_OneSummarizationPerTurn ==
    (/\ rpc = "closed"
     /\ req.kind = "chat"
     /\ requests = 1
     /\ bgTasks = {}
     /\ trace.streamEnded
     /\ resp.nonBlank
     /\ Len(req.hist) > history_truncate_threshold) =>
       /\ nextSummaryId <= 1
       /\ Truthy(trace.newSummary) => summaryFile = [summary |-> trace.newSummary]

\* C24: every goal's status is one of Active, Completed, Archived, whatever
\* goals were created and whatever status updates were made
GoalStatuses == {"Active", "Completed", "Archived"}

C24_StatusInEnum ==
    \A u \in Users : \A i \in DOMAIN goals[u] : goals[u][i].status \in GoalStatuses

\* the stored messages with the same chat, content and sender as m, other than m
Twins(m) ==
    {k \in messages : /\ k.id # m.id
                      /\ k.chat_id = m.chat_id
                      /\ k.content = m.content
                      /\ k.sender = m.sender}

Apart(a, b) == IF a >= b THEN a - b ELSE b - a

\* C30: after any sequence of save_message calls no two stored messages of
\* one chat with the same content and sender were created less than a minute
\* apart; a call suppressed as a duplicate stores nothing and leaves the
\* chat's updated_at as it was; a call for a chat that is not the caller's
\* stores nothing
C30_DuplicatesSuppressed ==
    /\ \A m \in messages : \A k \in Twins(m) :
           Apart(m.created_at, k.created_at) >= DuplicateWindow
    /\ last.op = "save_message" =>
          /\ last.reply = "Duplicate message not saved" =>
                /\ messages = last.pre.messages
                /\ chats = last.pre.chats
                /\ \E k \in last.pre.messages :
                      /\ k.chat_id = last.data.chat_id
                      /\ k.content = last.data.content
                      /\ k.sender = last.data.sender
                      /\ last.at - k.created_at < DuplicateWindow
          /\ (\/ last.data.chat_id \notin DOMAIN chats
              \/ chats[last.data.chat_id].user # last.user) =>
                messages = last.pre.messages
          /\ last.reply = "Message saved successfully" =>
                /\ Cardinality(messages) = Cardinality(last.pre.messages) + 1
                /\ chats[last.data.chat_id].updated_at = last.at

\* a message was stored, the same message was sent again within the minute
\* and suppressed, and it was stored again after the minute had passed
C30_Witness ==
    /\ last.op = "save_message"
    /\ last.reply = "Message saved successfully"
    /\ \E k \in last.pre.messages :
          /\ k.chat_id = last.data.chat_id
          /\ k.content = last.data.content
          /\ k.sender = last.data.sender
    /\ \E m \in messages \ last.pre.messages : Twins(m) # {}

\* the function calls among the parts of a response
IsFunctionCall(part) == part.kind = "call"

FunctionCalls(parts) == SelectSeq(parts, IsFunctionCall)

\* C21: when a call of initial_call_response returns, its response held
\* function calls and the profile is not complete after them, two LLM calls
\* were made and the second was given the list of the first, the model's
\* turn and one turn with one success response per function call of the
\* response; when the response held no function call, one LLM call was made
C21_EveryToolCallAcknowledged ==
    (last.op = "initial_call" /\ ~last.raised) =>
        LET calls == FunctionCalls(last.parts)
            first == last.llmCalls[1]
        IN /\ (calls # <<>> /\ ~IsProfileComplete(ProfileState(ProfileUser))) =>
                /\ Len(last.llmCalls) = 2
                /\ last.llmCalls[2] =
                      first \o <<[role |-> "model", parts |-> last.parts],
                                 [role |-> "user",
                                  parts |-> [i \in 1..Len(calls) |->
                                                FunctionResponse(calls[i].name)]]>>
           /\ calls = <<>> => Len(last.llmCalls) = 1

\* a step in which an extraction thread ends
ThreadEnds == Cardinality(bgTasks') < Cardinality(bgTasks)

Deleted(me) == me.seen[me.n + 1]

\* C25: when all writers of the user's memory list have ended, the list
\* holds every memory appended by a writer whose save succeeded, save those
\* that a successful delete_memory was asked to remove
C25_NoMemoryLost ==
    (\A w \in WriterIds : Writers[w].pc = "done") =>
        \A w \in WriterIds :
            (Writers[w].kind = "save" /\ Writers[w].ok) =>
                \/ NewMemory(w) \in Range(memories[ProfileUser])
                \/ \E d \in WriterIds : /\ Writers[d].kind = "delete"
                                        /\ Writers[d].ok
                                        /\ Deleted(Writers[d]) = NewMemory(w)

\* no thread is inside a call
Quiescent == \A th \in ThreadIds : Threads[th].pc \in {"idle", "done"}

\* C26: when every save and load call has returned, a cache entry that is
\* within its TTL is the summary of the stored record
C26_CacheCoherent ==
    (Quiescent /\ Truthy(summaryCache) /\ now - summaryCacheTime < summary_cache_timeout) =>
        (summaryFile # NoFile /\ summaryCache = summaryFile.summary)

====
